---- MODULE Spec2Model ----
(***************************************************************************)
(* Authentication session management of app/context/AuthContext.tsx:       *)
(* the token store helpers, the session reducer and the AuthProvider's     *)
(* asynchronous operations, with the remote authService as environment.    *)
(***************************************************************************)
EXTENDS Integers, Sequences, FiniteSets, TLC

(* ---------------------------------------------------------------------- *)
(* Values                                                                   *)
(* ---------------------------------------------------------------------- *)

\* Bound: how many AuthProvider method invocations may be suspended at their
\* await at the same time (the startup check is counted apart).
MaxInFlight == 2

\* JavaScript null and undefined.
Null == "null"
Undefined == "undefined"

Users == {"u1", "u2"}
Tokens == {"t1"}
ServerMessage == "server message"

\* JavaScript truthiness of a string-or-null-or-undefined value.
Truthy(x) == x \notin {Null, Undefined, ""}

\* a || b on such values.
OrElse(a, b) == IF Truthy(a) THEN a ELSE b

\* A token left in the store by an earlier run of the application.
StaleToken == "t0"

\* The shape of AuthResponse: user, token and message are optional.
AuthResponse ==
  [success : BOOLEAN,
   user : Users \cup {Undefined},
   token : Tokens \cup {Undefined},
   message : {Undefined, ServerMessage}]

\* The responses the authService returns: it normalises a failed call to a
\* message at the service boundary, so an unsuccessful response carries one.
Responses == {r \in AuthResponse : ~r.success => Truthy(r.message)}

\* No response at all: the value of a call that threw or that resolves with
\* nothing.
NoResponse ==
  [success |-> FALSE, user |-> Undefined, token |-> Undefined, message |-> Undefined]

\* What an awaited authService call can produce: a thrown error, or one of
\* the responses rs.
Outcomes(rs) ==
  {[threw |-> TRUE, resp |-> NoResponse]} \cup {[threw |-> FALSE, resp |-> r] : r \in rs}

\* The responses of each authService operation, up to the fields its caller
\* reads or hands on: login and register answer with user and token,
\* validateToken and updateProfile with a user, getProfile with a user whose
\* message nobody reads, changePassword with a message only; the value
\* logout resolves with is dropped.
SessionResponses == Responses
UserResponses == {r \in Responses : r.token = Undefined}
ProfileResponses == {r \in UserResponses : r.success => r.message = Undefined}
PlainResponses == {r \in UserResponses : r.user = Undefined}
VoidResponses == {NoResponse}

\* The environments of the token store: localStorage usable; localStorage
\* missing or inaccessible; localStorage readable but setItem throwing.
StorageModes == {"ok", "unavailable", "full"}

\* The asynchronous AuthProvider methods; each awaits one authService
\* operation.
AsyncOps ==
  {"login", "register", "logout", "updateProfile", "changePassword", "refreshUser"}

\* AuthAction, one record shape for the whole union.
AuthStart == [type |-> "AUTH_START", user |-> Undefined, token |-> Undefined, error |-> Undefined]
AuthSuccess(u, t) == [type |-> "AUTH_SUCCESS", user |-> u, token |-> t, error |-> Undefined]
AuthFailure(e) == [type |-> "AUTH_FAILURE", user |-> Undefined, token |-> Undefined, error |-> e]
AuthLogout == [type |-> "AUTH_LOGOUT", user |-> Undefined, token |-> Undefined, error |-> Undefined]
UpdateUser(u) == [type |-> "UPDATE_USER", user |-> u, token |-> Undefined, error |-> Undefined]
ClearError == [type |-> "CLEAR_ERROR", user |-> Undefined, token |-> Undefined, error |-> Undefined]
AuthCompleteWithoutUser ==
  [type |-> "AUTH_COMPLETE_WITHOUT_USER", user |-> Undefined, token |-> Undefined, error |-> Undefined]
\* An action outside the union (the reducer's default branch), and no action.
UnknownAction == [type |-> "UNKNOWN", user |-> Undefined, token |-> Undefined, error |-> Undefined]
NoAction == [type |-> "NONE", user |-> Undefined, token |-> Undefined, error |-> Undefined]

SettlingTypes ==
  {"AUTH_SUCCESS", "AUTH_FAILURE", "AUTH_LOGOUT", "AUTH_COMPLETE_WITHOUT_USER"}

\* Every well-typed AuthAction over the model's users, tokens and messages.
AuthActions ==
  {AuthStart, AuthLogout, ClearError, AuthCompleteWithoutUser, UnknownAction}
    \cup {AuthSuccess(u, t) : u \in Users, t \in Tokens \cup {Undefined}}
    \cup {AuthFailure(e) : e \in {ServerMessage, "Error en el login"}}
    \cup {UpdateUser(u) : u \in Users}

VARIABLES
  state,              \* AuthState held by useReducer
  globalCurrentUser,  \* module-level current-user reference
  localStorage,       \* value under TOKEN_STORAGE_KEY, Null when absent
  storageMode,        \* environment of the token store
  startupPc,          \* position of checkExistingAuth
  awaiting,           \* per method: invocations suspended at their await
  remote,             \* per method: authService requests outstanding
  validateCalls,      \* authService.validateToken calls made so far
  startupRuns,        \* runs of the mount effect so far
  lastSettling,       \* type of the most recent settling reducer action
  lastStep,           \* what the most recent step did
  asyncStorage,       \* value under 'authToken' in AsyncStorage, Null when absent
  lastCall,           \* what the most recent BarService invocation did
  platform,           \* Platform.OS
  addMenuItemScreen,  \* state of AddMenuItemScreen and what its last handler did
  reviewModal         \* state of ReviewModal and what its last event did

vars ==
  <<state, globalCurrentUser, localStorage, storageMode, startupPc, awaiting,
    remote, validateCalls, startupRuns, lastSettling, lastStep,
    asyncStorage, lastCall, platform, addMenuItemScreen, reviewModal>>

\* BarService's variables and the screens' variables.
serviceVars == <<asyncStorage, lastCall>>

screenVars == <<platform, addMenuItemScreen, reviewModal>>

\* The session manager's own variables.
sessionVars ==
  <<state, globalCurrentUser, localStorage, storageMode, startupPc, awaiting,
    remote, validateCalls, startupRuns, lastSettling, lastStep>>

initialState ==
  [isAuthenticated |-> FALSE, isLoading |-> TRUE, user |-> Null, error |-> Null]

(* ---------------------------------------------------------------------- *)
(* Token store helpers                                                      *)
(* ---------------------------------------------------------------------- *)

\* saveToken with the write left out.
saveTokenNoWrite(store, mode, token) ==
  [ok |-> mode = "ok", store |-> store]

\* saveToken: FALSE and no write when localStorage is missing or setItem
\* throws, otherwise the token replaces the stored value.
saveToken(store, mode, token) ==
  IF mode = "unavailable" THEN [ok |-> FALSE, store |-> store]
  ELSE IF mode = "full" THEN [ok |-> FALSE, store |-> store]
  ELSE [ok |-> TRUE, store |-> token]

\* getToken: null when localStorage is missing, otherwise the stored value.
getToken(store, mode) ==
  IF mode = "unavailable" THEN Null ELSE store

\* removeToken: FALSE and no change when localStorage is missing, otherwise
\* the key is removed.
removeToken(store, mode) ==
  IF mode = "unavailable" THEN [ok |-> FALSE, store |-> store]
  ELSE [ok |-> TRUE, store |-> Null]

(* ---------------------------------------------------------------------- *)
(* Session reducer                                                          *)
(* ---------------------------------------------------------------------- *)

\* What one run of the reducer leaves behind: the AuthState it returns and
\* the two things it writes besides it, the module-level user reference and
\* the token store.
Reduced(s, g, store) == [state |-> s, globalCurrentUser |-> g, localStorage |-> store]

\* The cases of authReducer, each on the state s, the module-level user
\* reference g, the token store and its environment, and the action.
\* AUTH_START resetting the session instead of spreading it.
AUTH_START_resets(s, g, store, mode, action) ==
  Reduced([initialState EXCEPT !.user = s.user], g, store)

\* AUTH_START without error: null.
AUTH_START_keepsError(s, g, store, mode, action) ==
  Reduced([s EXCEPT !.isLoading = TRUE], g, store)

AUTH_START(s, g, store, mode, action) ==
  Reduced([s EXCEPT !.isLoading = TRUE, !.error = Null], g, store)

AUTH_SUCCESS(s, g, store, mode, action) ==
  Reduced([s EXCEPT !.isAuthenticated = TRUE, !.isLoading = FALSE,
                    !.user = action.user, !.error = Null],
          action.user,
          IF Truthy(action.token) THEN saveToken(store, mode, action.token).store
                                  ELSE store)

\* AUTH_FAILURE without the removeToken() call.
AUTH_FAILURE_keepsToken(s, g, store, mode, action) ==
  Reduced([s EXCEPT !.isAuthenticated = FALSE, !.isLoading = FALSE,
                    !.user = Null, !.error = action.error],
          Null,
          store)

AUTH_FAILURE(s, g, store, mode, action) ==
  Reduced([s EXCEPT !.isAuthenticated = FALSE, !.isLoading = FALSE,
                    !.user = Null, !.error = action.error],
          Null,
          removeToken(store, mode).store)

\* AUTH_LOGOUT without the removeToken() call.
AUTH_LOGOUT_keepsToken(s, g, store, mode, action) ==
  Reduced([s EXCEPT !.isAuthenticated = FALSE, !.isLoading = FALSE,
                    !.user = Null, !.error = Null],
          Null,
          store)

AUTH_LOGOUT(s, g, store, mode, action) ==
  Reduced([s EXCEPT !.isAuthenticated = FALSE, !.isLoading = FALSE,
                    !.user = Null, !.error = Null],
          Null,
          removeToken(store, mode).store)

AUTH_COMPLETE_WITHOUT_USER(s, g, store, mode, action) ==
  Reduced([s EXCEPT !.isAuthenticated = FALSE, !.isLoading = FALSE,
                    !.user = Null, !.error = Null],
          Null,
          store)

\* UPDATE_USER without the assignment to globalCurrentUser.
UPDATE_USER_keepsGlobal(s, g, store, mode, action) ==
  Reduced([s EXCEPT !.user = action.user, !.error = Null], g, store)

UPDATE_USER(s, g, store, mode, action) ==
  Reduced([s EXCEPT !.user = action.user, !.error = Null], action.user, store)

CLEAR_ERROR(s, g, store, mode, action) ==
  Reduced([s EXCEPT !.error = Null], g, store)

\* authReducer: the switch over action.type; an unknown type returns the
\* state as it is.
authReducer(s, g, store, mode, action) ==
  CASE action.type = "AUTH_START" -> AUTH_START(s, g, store, mode, action)
    [] action.type = "AUTH_SUCCESS" -> AUTH_SUCCESS(s, g, store, mode, action)
    [] action.type = "AUTH_FAILURE" -> AUTH_FAILURE(s, g, store, mode, action)
    [] action.type = "AUTH_LOGOUT" -> AUTH_LOGOUT(s, g, store, mode, action)
    [] action.type = "AUTH_COMPLETE_WITHOUT_USER" ->
         AUTH_COMPLETE_WITHOUT_USER(s, g, store, mode, action)
    [] action.type = "UPDATE_USER" -> UPDATE_USER(s, g, store, mode, action)
    [] action.type = "CLEAR_ERROR" -> CLEAR_ERROR(s, g, store, mode, action)
    [] OTHER -> Reduced(s, g, store)

\* dispatch(action): one run of the reducer on the current state; NoAction
\* stands for a path of a method that dispatches nothing.
dispatch(action) ==
  IF action = NoAction
    THEN UNCHANGED <<state, globalCurrentUser, localStorage, lastSettling>>
    ELSE LET r == authReducer(state, globalCurrentUser, localStorage, storageMode, action)
         IN /\ state' = r.state
            /\ globalCurrentUser' = r.globalCurrentUser
            /\ localStorage' = r.localStorage
            /\ lastSettling' = IF action.type \in SettlingTypes
                                 THEN action.type ELSE lastSettling

(* ---------------------------------------------------------------------- *)
(* AuthProvider methods: what each does once its awaited call has settled   *)
(* ---------------------------------------------------------------------- *)

\* The literal { success: false, message } the catch blocks return.
ErrorResponse(msg) ==
  [success |-> FALSE, user |-> Undefined, token |-> Undefined, message |-> msg]

\* How a method ends: the action it dispatches (NoAction for none), whether
\* its promise resolves or rejects, and the response it resolves with
\* (returns = "void" for Promise<void>).
Resolved(action, ret) ==
  [action |-> action, outcome |-> "resolved", returns |-> "response", ret |-> ret]
ResolvedVoid(action) ==
  [action |-> action, outcome |-> "resolved", returns |-> "void", ret |-> NoResponse]
Rejected(action) ==
  [action |-> action, outcome |-> "rejected", returns |-> "void", ret |-> NoResponse]

\* login testing response.success alone before it dispatches AUTH_SUCCESS.
loginNoUserCheck(out) ==
  IF out.threw
    THEN Resolved(AuthFailure("Error durante el login"),
                  ErrorResponse("Error durante el login"))
    ELSE IF out.resp.success
      THEN Resolved(AuthSuccess(out.resp.user, out.resp.token), out.resp)
      ELSE Resolved(AuthFailure(OrElse(out.resp.message, "Error en el login")),
                    out.resp)

\* login without its catch block: a thrown error reaches the caller.
loginNoCatch(out) ==
  IF out.threw
    THEN Rejected(NoAction)
    ELSE IF out.resp.success /\ Truthy(out.resp.user)
      THEN Resolved(AuthSuccess(out.resp.user, out.resp.token), out.resp)
      ELSE Resolved(AuthFailure(OrElse(out.resp.message, "Error en el login")),
                    out.resp)

\* login, after authService.login(credentials) settled with out.
login(out) ==
  IF out.threw
    THEN Resolved(AuthFailure("Error durante el login"),
                  ErrorResponse("Error durante el login"))
    ELSE IF out.resp.success /\ Truthy(out.resp.user)
      THEN Resolved(AuthSuccess(out.resp.user, out.resp.token), out.resp)
      ELSE Resolved(AuthFailure(OrElse(out.resp.message, "Error en el login")),
                    out.resp)

\* register, after authService.register(userData) settled with out.
register(out) ==
  IF out.threw
    THEN Resolved(AuthFailure("Error durante el registro"),
                  ErrorResponse("Error durante el registro"))
    ELSE IF out.resp.success /\ Truthy(out.resp.user)
      THEN Resolved(AuthSuccess(out.resp.user, out.resp.token), out.resp)
      ELSE Resolved(AuthFailure(OrElse(out.resp.message, "Error en el registro")),
                    out.resp)

\* logout whose catch block only logs the error.
logoutNoForce(out) ==
  IF out.threw THEN ResolvedVoid(NoAction) ELSE ResolvedVoid(AuthLogout)

\* logout, after authService.logout() settled with out: the try and the
\* catch both dispatch AUTH_LOGOUT.
logout(out) ==
  IF out.threw THEN ResolvedVoid(AuthLogout) ELSE ResolvedVoid(AuthLogout)

\* updateProfile whose catch block rethrows.
updateProfileRethrows(out) ==
  IF out.threw
    THEN Rejected(NoAction)
    ELSE IF out.resp.success /\ Truthy(out.resp.user)
      THEN Resolved(UpdateUser(out.resp.user), out.resp)
      ELSE Resolved(NoAction, out.resp)

\* updateProfile, after authService.updateProfile(profileData) settled.
updateProfile(out) ==
  IF out.threw
    THEN Resolved(NoAction, ErrorResponse("Error al actualizar perfil"))
    ELSE IF out.resp.success /\ Truthy(out.resp.user)
      THEN Resolved(UpdateUser(out.resp.user), out.resp)
      ELSE Resolved(NoAction, out.resp)

\* changePassword, after authService.changePassword(passwordData) settled.
changePassword(out) ==
  IF out.threw
    THEN Resolved(NoAction, ErrorResponse("Error al cambiar contraseña"))
    ELSE Resolved(NoAction, out.resp)

\* refreshUser treating a failed getProfile as an authentication failure.
refreshUserFailsSession(out) ==
  IF out.threw
    THEN ResolvedVoid(AuthFailure("Error al verificar autenticación"))
    ELSE IF out.resp.success /\ Truthy(out.resp.user)
      THEN ResolvedVoid(UpdateUser(out.resp.user))
      ELSE ResolvedVoid(AuthFailure("Error al verificar autenticación"))

\* refreshUser, after authService.getProfile() settled.
refreshUser(out) ==
  IF out.threw
    THEN ResolvedVoid(NoAction)
    ELSE IF out.resp.success /\ Truthy(out.resp.user)
      THEN ResolvedVoid(UpdateUser(out.resp.user))
      ELSE ResolvedVoid(NoAction)

\* checkExistingAuth validating whatever hasToken answered.
checkExistingAuthAlwaysValidates(r) ==
  IF r = "throw"
    THEN [action |-> AuthFailure("Error al verificar autenticación"), next |-> "done"]
    ELSE [action |-> NoAction, next |-> "validateToken"]

\* checkExistingAuth, after authService.hasToken() settled: r is "true",
\* "false" or "throw". next = "validateToken" is the call of
\* authService.validateToken(); next = "done" ends the check.
HasTokenResults == {"true", "false", "throw"}
checkExistingAuthHasToken(r) ==
  IF r = "throw"
    THEN [action |-> AuthFailure("Error al verificar autenticación"), next |-> "done"]
    ELSE IF r = "false"
      THEN [action |-> AuthCompleteWithoutUser, next |-> "done"]
      ELSE [action |-> NoAction, next |-> "validateToken"]

\* checkExistingAuth whose catch block only logs the error.
checkExistingAuthSwallows(out) ==
  IF out.threw
    THEN ResolvedVoid(NoAction)
    ELSE IF out.resp.success /\ Truthy(out.resp.user)
      THEN ResolvedVoid(AuthSuccess(out.resp.user, Undefined))
      ELSE ResolvedVoid(AuthFailure(OrElse(out.resp.message, "Token inválido o expirado")))

\* checkExistingAuth, after authService.validateToken() settled with out.
checkExistingAuthValidate(out) ==
  IF out.threw
    THEN ResolvedVoid(AuthFailure("Error al verificar autenticación"))
    ELSE IF out.resp.success /\ Truthy(out.resp.user)
      THEN ResolvedVoid(AuthSuccess(out.resp.user, Undefined))
      ELSE ResolvedVoid(AuthFailure(OrElse(out.resp.message, "Token inválido o expirado")))

(* ---------------------------------------------------------------------- *)
(* Steps                                                                    *)
(* ---------------------------------------------------------------------- *)

NoOutcome == [threw |-> FALSE, resp |-> NoResponse]

\* The record of one step: the method, its phase ("call" up to the await,
\* "await" between two awaits, "return" from the last await to the end), how
\* the promise ended, the response it resolved with, the authService remote
\* operations the step invoked, the outcome of the call it awaited, the
\* action it dispatched, the stored token before the step
\* and, in checkExistingAuth, what hasToken had answered.
Step(op, phase, end, requests, out, hasToken) ==
  [op |-> op, phase |-> phase, outcome |-> end.outcome, returns |-> end.returns,
   ret |-> end.ret, requests |-> requests, out |-> out, action |-> end.action,
   tokenBefore |-> getToken(localStorage, storageMode), hasToken |-> hasToken]

Pending(action) ==
  [action |-> action, outcome |-> "pending", returns |-> "void", ret |-> NoResponse]

InFlight == awaiting["login"] + awaiting["register"] + awaiting["logout"]
              + awaiting["updateProfile"] + awaiting["changePassword"]
              + awaiting["refreshUser"]

\* A method can be invoked once the provider is mounted and its effect ran.
CanInvoke == startupPc # "mount" /\ InFlight < MaxInFlight

\* The synchronous part of method op, up to its await: it dispatches action
\* (NoAction for none) and invokes its one authService operation. The caller
\* states when the method can be invoked.
Invoke(op, action) ==
  /\ dispatch(action)
  /\ awaiting' = [awaiting EXCEPT ![op] = @ + 1]
  /\ remote' = [remote EXCEPT ![op] = @ + 1]
  /\ lastStep' = Step(op, "call", Pending(action), 1, NoOutcome, "n/a")
  /\ UNCHANGED <<storageMode, startupPc, validateCalls, startupRuns, serviceVars, screenVars>>

\* The rest of method op, run when its awaited call settles: end is what the
\* method does with the outcome out. The caller states that an invocation of
\* op is suspended.
Settle(op, out, end) ==
  /\ dispatch(end.action)
  /\ awaiting' = [awaiting EXCEPT ![op] = @ - 1]
  /\ remote' = [remote EXCEPT ![op] = @ - 1]
  /\ lastStep' = Step(op, "return", end, 0, out, "n/a")
  /\ UNCHANGED <<storageMode, startupPc, validateCalls, startupRuns, serviceVars, screenVars>>

(* ---------------------------------------------------------------------- *)
(* BarService: the HTTP client and its methods                              *)
(* ---------------------------------------------------------------------- *)

NotFound == 404

\* What the HTTP client can answer to one request: a response, an AxiosError
\* with a response (whose body may carry a message), an AxiosError without a
\* response (network failure, timeout), or an error that is no AxiosError.
HttpOutcomes ==
  {[kind |-> "ok", status |-> 200, bodyMessage |-> Undefined,
    message |-> Undefined, data |-> d] : d \in {"true", "false"}}
    \cup {[kind |-> "axios", status |-> st, bodyMessage |-> m,
           message |-> "Request failed with status code", data |-> Undefined] :
            st \in {NotFound, 500}, m \in {ServerMessage, Undefined}}
    \cup {[kind |-> "axios", status |-> 0, bodyMessage |-> Undefined,
           message |-> "Network Error", data |-> Undefined]}
    \cup {[kind |-> "other", status |-> 0, bodyMessage |-> Undefined,
           message |-> "not an AxiosError", data |-> Undefined]}

NoHttp ==
  [kind |-> "none", status |-> 0, bodyMessage |-> Undefined,
   message |-> Undefined, data |-> Undefined]

\* Error values: new Error(message), and the error object the client threw
\* (an AxiosError keeps its own message; the body stays inside its response).
NoError == [name |-> "none", message |-> Undefined, bodyMessage |-> Undefined]

Error(message) == [name |-> "Error", message |-> message, bodyMessage |-> Undefined]

Caught(http) ==
  [name |-> IF http.kind = "axios" THEN "AxiosError" ELSE "Error",
   message |-> http.message, bodyMessage |-> http.bodyMessage]

isAxiosError(http) == http.kind = "axios"

\* The request interceptor: the header it sets from AsyncStorage's 'authToken'.
interceptor(token) == IF Truthy(token) THEN "Bearer " \o token ELSE Undefined

\* this.api.<verb>(...): one HTTP request, answered by http.
api(token, http) == [sent |-> 1, authorization |-> interceptor(token), http |-> http]

NoRequest == [sent |-> 0, authorization |-> Undefined, http |-> NoHttp]

\* How an invocation ends: the requests it sent and what its promise settled to.
Returns(req, value) ==
  [requests |-> req.sent, authorization |-> req.authorization, http |-> req.http,
   outcome |-> "resolved", error |-> NoError, value |-> value, handled |-> FALSE]

Throws(req, error, handled) ==
  [requests |-> req.sent, authorization |-> req.authorization, http |-> req.http,
   outcome |-> "rejected", error |-> error, value |-> Undefined, handled |-> handled]

\* authService.getCurrentUser()?._id
CurrentUserId(currentUser) == IF Truthy(currentUser) THEN currentUser ELSE Undefined

\* try { return await this.api.get(..) } catch (error) { HandleLoginError(error); throw error }
GetOrRethrow(token, http) ==
  IF http.kind = "ok"
    THEN Returns(api(token, http), "response")
    ELSE Throws(api(token, http), Caught(http), TRUE)

\* catch (error) { if (axios.isAxiosError(error)) throw new Error(message); .. throw error }
NormalizedCatch(token, http, handled) ==
  IF isAxiosError(http)
    THEN Throws(api(token, http), Error(OrElse(http.bodyMessage, http.message)), FALSE)
    ELSE Throws(api(token, http), Caught(http), handled)

getUserReviewCount(userId, currentUser, token, http) ==
  IF ~Truthy(OrElse(userId, CurrentUserId(currentUser)))
    THEN Throws(NoRequest, Error("User not authenticated"), TRUE)
    ELSE GetOrRethrow(token, http)

getMenuItemById(userId, currentUser, token, http) ==
  IF http.kind = "ok"
    THEN Returns(api(token, http), "data")
    ELSE IF isAxiosError(http) /\ http.status = NotFound
      THEN Throws(api(token, http), Error("Menu item not found"), FALSE)
      ELSE Throws(api(token, http), Caught(http), FALSE)

\* createReview asking again after a failed request.
createReviewRetries(userId, currentUser, token, http) ==
  IF ~Truthy(CurrentUserId(currentUser))
    THEN Throws(NoRequest, Error("User not authenticated"), FALSE)
    ELSE IF http.kind = "ok"
      THEN Returns(api(token, http), "response")
      ELSE [NormalizedCatch(token, http, TRUE) EXCEPT !.requests = 2]

createReview(userId, currentUser, token, http) ==
  IF ~Truthy(CurrentUserId(currentUser))
    THEN Throws(NoRequest, Error("User not authenticated"), FALSE)
    ELSE IF http.kind = "ok"
      THEN Returns(api(token, http), "response")
      ELSE NormalizedCatch(token, http, TRUE)

updateReview(userId, currentUser, token, http) ==
  IF ~Truthy(CurrentUserId(currentUser))
    THEN Throws(NoRequest, Error("User not authenticated"), FALSE)
    ELSE IF http.kind = "ok"
      THEN Returns(api(token, http), "response")
      ELSE NormalizedCatch(token, http, TRUE)

\* deleteReview without its identity check.
deleteReviewUnchecked(userId, currentUser, token, http) ==
  IF http.kind = "ok"
    THEN Returns(api(token, http), "response")
    ELSE NormalizedCatch(token, http, TRUE)

deleteReview(userId, currentUser, token, http) ==
  IF ~Truthy(CurrentUserId(currentUser))
    THEN Throws(NoRequest, Error("User not authenticated"), FALSE)
    ELSE IF http.kind = "ok"
      THEN Returns(api(token, http), "response")
      ELSE NormalizedCatch(token, http, TRUE)

checkUserReview(userId, currentUser, token, http) ==
  IF ~Truthy(CurrentUserId(currentUser))
    THEN Returns(NoRequest, "false")
    ELSE IF http.kind = "ok"
      THEN Returns(api(token, http), http.data)
      ELSE Returns(api(token, http), "false")

getUserReviews(userId, currentUser, token, http) ==
  IF ~Truthy(OrElse(userId, CurrentUserId(currentUser)))
    THEN Throws(NoRequest, Error("User not authenticated"), TRUE)
    ELSE GetOrRethrow(token, http)

getEventById(userId, currentUser, token, http) ==
  IF http.kind = "ok"
    THEN Returns(api(token, http), "response")
    ELSE Throws(api(token, http), Caught(http), FALSE)

addBarToFavorites(userId, currentUser, token, http) ==
  IF ~Truthy(CurrentUserId(currentUser))
    THEN Throws(NoRequest, Error("User not authenticated"), FALSE)
    ELSE IF http.kind = "ok"
      THEN Returns(api(token, http), "response")
      ELSE NormalizedCatch(token, http, FALSE)

removeBarFromFavorites(userId, currentUser, token, http) ==
  IF ~Truthy(CurrentUserId(currentUser))
    THEN Throws(NoRequest, Error("User not authenticated"), FALSE)
    ELSE IF http.kind = "ok"
      THEN Returns(api(token, http), "response")
      ELSE Throws(api(token, http), Caught(http), FALSE)

isBarFavorite(userId, currentUser, token, http) ==
  IF ~Truthy(CurrentUserId(currentUser))
    THEN Returns(NoRequest, "false")
    ELSE IF http.kind = "ok"
      THEN Returns(api(token, http), http.data)
      ELSE Returns(api(token, http), "false")

\* The record of one invocation: the method, its userId argument, what
\* authService.getCurrentUser() answered, the token the session manager's
\* getToken() returned at that time, and how the invocation ended.
Invoked(method, userId, currentUser, end) ==
  [method |-> method, userId |-> userId, currentUser |-> currentUser,
   persisted |-> getToken(localStorage, storageMode),
   requests |-> end.requests, authorization |-> end.authorization,
   http |-> end.http, outcome |-> end.outcome, error |-> end.error,
   value |-> end.value, handled |-> end.handled]

NoCall ==
  [method |-> "none", userId |-> Undefined, currentUser |-> Null,
   persisted |-> Null,
   requests |-> 0, authorization |-> Undefined, http |-> NoHttp,
   outcome |-> "pending", error |-> NoError, value |-> Undefined,
   handled |-> FALSE]

\* The methods that read the caller's identity from authService, and of
\* those the ones that take a userId argument first.
IdentityMethods ==
  {"createReview", "updateReview", "deleteReview", "addBarToFavorites",
   "removeBarFromFavorites", "checkUserReview", "isBarFavorite",
   "getUserReviewCount", "getUserReviews"}

OptionalUserIdMethods == {"getUserReviewCount", "getUserReviews"}

(* ---------------------------------------------------------------------- *)
(* Text and numbers of the screens                                          *)
(* ---------------------------------------------------------------------- *)

MaxTextLen == 3

\* A text is a sequence of characters; "x" stands for any character that is
\* no space, sign, point or digit.
Chars == {" ", "-", ".", "0", "1", "x"}

Digits == {"0", "1"}

DigitValue(c) == IF c = "1" THEN 1 ELSE 0

Texts(n) == UNION {[1..k -> Chars] : k \in 0..n}

RECURSIVE trimStart(_)
trimStart(s) == IF s # <<>> /\ Head(s) = " " THEN trimStart(Tail(s)) ELSE s

RECURSIVE trimEnd(_)
trimEnd(s) ==
  IF s # <<>> /\ s[Len(s)] = " " THEN trimEnd(SubSeq(s, 1, Len(s) - 1)) ELSE s

trim(s) == trimEnd(trimStart(s))

\* The longest run of digits a text starts with, and the integer it writes.
RECURSIVE DigitsPrefix(_)
DigitsPrefix(s) ==
  IF s # <<>> /\ Head(s) \in Digits
    THEN <<Head(s)>> \o DigitsPrefix(Tail(s))
    ELSE <<>>

RECURSIVE Numeral(_)
Numeral(ds) ==
  IF ds = <<>>
    THEN 0
    ELSE 10 * Numeral(SubSeq(ds, 1, Len(ds) - 1)) + DigitValue(ds[Len(ds)])

RECURSIVE Pow10(_)
Pow10(n) == IF n = 0 THEN 1 ELSE 10 * Pow10(n - 1)

\* A JavaScript number: NaN, or the fraction num / den with den a power of ten.
NaN == [nan |-> TRUE, num |-> 0, den |-> 1]

Number(num, den) == [nan |-> FALSE, num |-> num, den |-> den]

isNaN(x) == x.nan

\* x < k, x <= k and x > k for an integer k; false on NaN, as in JavaScript.
Less(x, k) == ~x.nan /\ x.num < k * x.den

LessEq(x, k) == ~x.nan /\ x.num <= k * x.den

Greater(x, k) == ~x.nan /\ x.num > k * x.den

\* parseFloat: leading white space is skipped, then the longest prefix that
\* is a decimal literal (sign, digits, point, digits) is read; NaN when there
\* is no such prefix. What follows the literal is ignored.
parseFloat(text) ==
  LET s == trimStart(text)
      negative == s # <<>> /\ Head(s) = "-"
      body == IF negative THEN Tail(s) ELSE s
      int == DigitsPrefix(body)
      rest == SubSeq(body, Len(int) + 1, Len(body))
      frac == IF rest # <<>> /\ Head(rest) = "." THEN DigitsPrefix(Tail(rest)) ELSE <<>>
      magnitude == Numeral(int \o frac)
  IN  IF int = <<>> /\ frac = <<>>
        THEN NaN
        ELSE Number(IF negative THEN 0 - magnitude ELSE magnitude, Pow10(Len(frac)))

Platforms == {"web", "native"}

(* ---------------------------------------------------------------------- *)
(* AddMenuItemScreen                                                        *)
(* ---------------------------------------------------------------------- *)

ItemTypes == {"alcohol", "comida", "bebida"}

ValidUrl == "http://bar.test/item.png"

\* new URL(url) succeeds on an absolute URL only.
isValidUrl(url) == url = ValidUrl

NoErrors ==
  [name |-> Undefined, description |-> Undefined, price |-> Undefined,
   alcoholPercentage |-> Undefined, volume |-> Undefined, photo |-> Undefined]

\* validateForm treating 0 as a valid alcohol percentage.
alcoholPercentageErrorZeroAllowed(form) ==
  IF form.type = "alcohol"
    THEN IF trim(form.alcoholPercentage) = <<>>
      THEN "Alcohol percentage is required for alcoholic items"
      ELSE LET alcoholPercent == parseFloat(form.alcoholPercentage)
           IN  IF isNaN(alcoholPercent) \/ Less(alcoholPercent, 0)
                    \/ Greater(alcoholPercent, 100)
                 THEN "Alcohol percentage must be between 0 and 100"
                 ELSE Undefined
    ELSE Undefined

alcoholPercentageError(form) ==
  IF form.type = "alcohol"
    THEN IF trim(form.alcoholPercentage) = <<>>
      THEN "Alcohol percentage is required for alcoholic items"
      ELSE LET alcoholPercent == parseFloat(form.alcoholPercentage)
           IN  IF isNaN(alcoholPercent) \/ LessEq(alcoholPercent, 0)
                    \/ Greater(alcoholPercent, 100)
                 THEN "Alcohol percentage must be between 0 and 100"
                 ELSE Undefined
    ELSE Undefined

\* validateForm: the errors it sets; it returns true when there is none.
validateForm(form) ==
  [name |-> IF trim(form.name) = <<>> THEN "Name is required" ELSE Undefined,
   description |->
     IF trim(form.description) = <<>> THEN "Description is required" ELSE Undefined,
   price |->
     IF trim(form.price) = <<>>
       THEN "Price is required"
       ELSE IF isNaN(parseFloat(form.price)) \/ Less(parseFloat(form.price), 0)
         THEN "Price must be a positive number"
         ELSE Undefined,
   alcoholPercentage |-> alcoholPercentageError(form),
   volume |->
     IF trim(form.volume) # <<>>
          /\ (isNaN(parseFloat(form.volume)) \/ Less(parseFloat(form.volume), 0))
       THEN "Volume must be a positive number"
       ELSE Undefined,
   photo |->
     IF form.photo # "" /\ ~isValidUrl(form.photo)
       THEN "Please enter a valid URL"
       ELSE Undefined]

\* The body handleSubmit sends to BusinessService.addMenuItem.
menuItemData(form) ==
  [name |-> trim(form.name),
   description |-> trim(form.description),
   price |-> parseFloat(form.price),
   photo |-> IF form.photo # "" THEN form.photo ELSE Undefined,
   type |-> form.type,
   alcoholPercentage |->
     IF form.type = "alcohol" THEN parseFloat(form.alcoholPercentage) ELSE Number(0, 1),
   volume |-> IF form.volume # <<>> THEN parseFloat(form.volume) ELSE Number(0, 1)]

NoData ==
  [name |-> <<>>, description |-> <<>>, price |-> NaN, photo |-> Undefined,
   type |-> "comida", alcoholPercentage |-> NaN, volume |-> NaN]

emptyForm ==
  [name |-> <<>>, description |-> <<>>, price |-> <<>>, photo |-> "",
   type |-> "comida", alcoholPercentage |-> <<>>, volume |-> <<>>]

\* The screen when it is opened with form filled in as given: the texts of
\* the fields are inputs.
Opened(form) ==
  [form |-> form, errors |-> NoErrors, loading |-> FALSE,
   showSuccessModal |-> FALSE, alert |-> "none", mounted |-> TRUE,
   pending |-> 0, body |-> NoData,
   last |-> [handler |-> "none", valid |-> FALSE, requests |-> 0]]

\* The forms the screen is opened with: every text of the alcohol percentage
\* under every type, with a name or none and a volume of nothing or a space.
Forms ==
  {[name |-> n, description |-> <<"x">>, price |-> p, photo |-> ph, type |-> t,
    alcoholPercentage |-> a, volume |-> v] :
     n \in {<<>>, <<"x">>}, p \in {<<"1">>},
     ph \in {""}, t \in ItemTypes,
     a \in Texts(MaxTextLen), v \in {<<>>, <<" ">>}}

\* The screen takes presses while it is shown and no alert or modal covers it.
Interactive(screen) ==
  screen.mounted /\ screen.alert = "none" /\ ~screen.showSuccessModal

\* The submit button without its disabled prop.
SubmitAlwaysEnabled(screen) == TRUE

\* disabled={loading} on the submit button.
SubmitEnabled(screen) == ~screen.loading

Handled(handler, valid, requests) ==
  [handler |-> handler, valid |-> valid, requests |-> requests]

\* handleSubmit calling the service whatever validateForm returned.
handleSubmitUnvalidated(screen) ==
  [screen EXCEPT !.errors = validateForm(screen.form),
                 !.loading = TRUE,
                 !.pending = @ + 1,
                 !.body = menuItemData(screen.form),
                 !.last = Handled("handleSubmit", validateForm(screen.form) = NoErrors, 1)]

\* handleSubmit up to its await.
handleSubmit(screen) ==
  IF validateForm(screen.form) # NoErrors
    THEN [screen EXCEPT !.errors = validateForm(screen.form),
                        !.last = Handled("handleSubmit", FALSE, 0)]
    ELSE [screen EXCEPT !.errors = validateForm(screen.form),
                        !.loading = TRUE,
                        !.pending = @ + 1,
                        !.body = menuItemData(screen.form),
                        !.last = Handled("handleSubmit", TRUE, 1)]

\* handleSubmit without its finally block when the call rejected.
handleSubmitReturnNoFinally(screen, os, resolved) ==
  [screen EXCEPT !.pending = @ - 1,
                 !.showSuccessModal =
                   IF resolved /\ screen.mounted /\ os = "web" THEN TRUE ELSE @,
                 !.alert = IF os = "web" THEN @
                           ELSE IF resolved THEN "success" ELSE "error",
                 !.loading = IF resolved THEN FALSE ELSE @,
                 !.last = Handled(IF resolved THEN "resolved" ELSE "rejected", FALSE, 0)]

\* handleSubmit after its await. BusinessService.addMenuItem resolved: the
\* success modal on web, the native alert elsewhere; it rejected: the error
\* alert of the catch (Alert.alert shows nothing on web); then finally.
handleSubmitReturn(screen, os, resolved) ==
  [screen EXCEPT !.pending = @ - 1,
                 !.showSuccessModal =
                   IF resolved /\ screen.mounted /\ os = "web" THEN TRUE ELSE @,
                 !.alert = IF os = "web" THEN @
                           ELSE IF resolved THEN "success" ELSE "error",
                 !.loading = FALSE,
                 !.last = Handled(IF resolved THEN "resolved" ELSE "rejected", FALSE, 0)]

(* ---------------------------------------------------------------------- *)
(* ReviewModal                                                              *)
(* ---------------------------------------------------------------------- *)

MaxCommentLen == 10

MinCommentLength == 10

MaxRating == 5

Pad(n) == [i \in 1..n |-> " "]

Word(n) == [i \in 1..n |-> "x"]

\* The comments typed: a run of other characters between two runs of spaces.
Comments ==
  {comment \in {Pad(i) \o Word(j) \o Pad(k) :
                  i \in 0..MaxCommentLen, j \in 0..MaxCommentLen,
                  k \in 0..MaxCommentLen} :
     Len(comment) <= MaxCommentLen}

\* The test on the comment that counts the characters typed, spaces included.
commentTooShortUntrimmed(comment) == Len(comment) < MinCommentLength

\* comment.trim().length < 10, in handleSubmit and on the submit button.
commentTooShort(comment) == Len(trim(comment)) < MinCommentLength

NoReview == [method |-> "none", rating |-> 0, comment |-> <<>>]

\* What an event did: the handler that ran ("none" when the control pressed
\* was disabled), the BarService calls it made, and whether the delete
\* confirmation was on display and loading was set when the event came.
Event(event, handler, requests, confirming, loading) ==
  [event |-> event, handler |-> handler, requests |-> requests,
   confirming |-> confirming, loading |-> loading]

Confirming(modal) == modal.showDeleteConfirmation \/ modal.alert = "confirmDelete"

Ran(modal, event, handler, requests) ==
  Event(event, handler, requests, Confirming(modal), modal.loading)

\* The modal as it is first shown: useState's initial values.
Shown(existingReview, existingRating, comment) ==
  [visible |-> TRUE, existingReview |-> existingReview,
   rating |-> IF existingReview # Null THEN existingRating ELSE 0,
   comment |-> comment, loading |-> FALSE, showDeleteConfirmation |-> FALSE,
   alert |-> "none", pendingSubmit |-> 0, pendingDelete |-> 0,
   review |-> NoReview,
   last |-> Event("none", "none", 0, FALSE, FALSE)]

\* Alert.alert shows a native alert, and nothing on web.
Alerted(os, alert, current) == IF os # "web" THEN alert ELSE current

\* The controls of the modal take presses while it is shown and neither the
\* confirmation nor a native alert covers it.
ModalInteractive(modal) ==
  modal.visible /\ modal.alert = "none" /\ ~modal.showDeleteConfirmation

\* disabled={loading || rating === 0 || comment.trim().length < 10}
ReviewSubmitDisabled(modal) ==
  modal.loading \/ modal.rating = 0 \/ commentTooShort(modal.comment)

\* handleSubmit up to its await.
ReviewModal_handleSubmit(modal, os, event) ==
  IF modal.rating = 0 \/ commentTooShort(modal.comment)
    THEN [modal EXCEPT !.alert = Alerted(os, "error", @),
                       !.last = Ran(modal, event, "handleSubmit", 0)]
    ELSE [modal EXCEPT !.loading = TRUE,
                       !.pendingSubmit = @ + 1,
                       !.review = [method |-> IF modal.existingReview # Null
                                                THEN "updateReview" ELSE "createReview",
                                   rating |-> modal.rating,
                                   comment |-> trim(modal.comment)],
                       !.last = Ran(modal, event, "handleSubmit", 1)]

\* handleSubmit after its await. The call resolved: alert, reset, onClose;
\* it rejected: the alert of the catch; then finally.
ReviewModal_handleSubmitReturn(modal, os, resolved) ==
  IF resolved
    THEN [modal EXCEPT !.pendingSubmit = @ - 1,
                       !.alert = Alerted(os, "success", @),
                       !.rating = 0,
                       !.comment = <<>>,
                       !.visible = FALSE,
                       !.loading = FALSE,
                       !.last = Ran(modal, "resolved", "handleSubmit", 0)]
    ELSE [modal EXCEPT !.pendingSubmit = @ - 1,
                       !.alert = Alerted(os, "error", @),
                       !.loading = FALSE,
                       !.last = Ran(modal, "rejected", "handleSubmit", 0)]

\* performDelete up to its await.
performDelete(modal, os, event) ==
  IF modal.existingReview = Null
    THEN [modal EXCEPT !.last = Ran(modal, event, "performDelete", 0)]
    ELSE [modal EXCEPT !.loading = TRUE,
                       !.pendingDelete = @ + 1,
                       !.review = [method |-> "deleteReview", rating |-> 0,
                                   comment |-> <<>>],
                       !.last = Ran(modal, event, "performDelete", 1)]

\* performDelete after its await. The call resolved: reset, onClose, the
\* alert of the timer; it rejected: the alert of the catch; then finally.
performDeleteReturn(modal, os, resolved) ==
  IF resolved
    THEN [modal EXCEPT !.pendingDelete = @ - 1,
                       !.rating = 0,
                       !.comment = <<>>,
                       !.visible = FALSE,
                       !.alert = Alerted(os, "success", @),
                       !.loading = FALSE,
                       !.showDeleteConfirmation = FALSE,
                       !.last = Ran(modal, "resolved", "performDelete", 0)]
    ELSE [modal EXCEPT !.pendingDelete = @ - 1,
                       !.alert = Alerted(os, "error", @),
                       !.loading = FALSE,
                       !.showDeleteConfirmation = FALSE,
                       !.last = Ran(modal, "rejected", "performDelete", 0)]

\* handleDeleteReview deleting at once, without asking.
handleDeleteReviewUnconfirmed(modal, os, event) ==
  IF modal.existingReview = Null \/ modal.loading
    THEN [modal EXCEPT !.last = Ran(modal, event, "handleDeleteReview", 0)]
    ELSE [performDelete(modal, os, event) EXCEPT !.last.handler = "handleDeleteReview"]

\* handleDeleteReview: the confirmation modal on web, the native alert
\* with Cancel and Delete elsewhere.
handleDeleteReview(modal, os, event) ==
  IF modal.existingReview = Null \/ modal.loading
    THEN [modal EXCEPT !.last = Ran(modal, event, "handleDeleteReview", 0)]
    ELSE IF os = "web"
      THEN [modal EXCEPT !.showDeleteConfirmation = TRUE,
                         !.last = Ran(modal, event, "handleDeleteReview", 0)]
      ELSE [modal EXCEPT !.alert = "confirmDelete",
                         !.last = Ran(modal, event, "handleDeleteReview", 0)]

\* handleClose
handleClose(modal, os, event) ==
  IF modal.loading
    THEN [modal EXCEPT !.last = Ran(modal, event, "handleClose", 0)]
    ELSE [modal EXCEPT !.rating = IF modal.existingReview = Null THEN 0 ELSE @,
                       !.comment = IF modal.existingReview = Null THEN <<>> ELSE @,
                       !.showDeleteConfirmation = FALSE,
                       !.visible = FALSE,
                       !.last = Ran(modal, event, "handleClose", 0)]

\* A press on a control that is disabled: no handler runs.
Ignored(modal, event) == [modal EXCEPT !.last = Ran(modal, event, "none", 0)]


SessionInit ==
  /\ state = initialState
  /\ globalCurrentUser = Null
  /\ storageMode \in StorageModes
  /\ localStorage \in (IF storageMode = "unavailable" THEN {Null} ELSE {Null, StaleToken})
  /\ startupPc = "mount"
  /\ awaiting = [op \in AsyncOps |-> 0]
  /\ remote = [op \in AsyncOps |-> 0]
  /\ validateCalls = 0
  /\ startupRuns = 0
  /\ lastSettling = "NONE"
  /\ lastStep = [op |-> "none", phase |-> "init", outcome |-> "pending",
                 returns |-> "void", ret |-> NoResponse, requests |-> 0,
                 out |-> NoOutcome, action |-> NoAction,
                 tokenBefore |-> getToken(localStorage, storageMode),
                 hasToken |-> "n/a"]

\* The provider before its mount effect; no BarService method was invoked and
\* AsyncStorage holds nothing under 'authToken'.
Init ==
  /\ SessionInit
  /\ asyncStorage = Null
  /\ lastCall = NoCall
  /\ platform = "web"
  /\ addMenuItemScreen = Opened(emptyForm)
  /\ reviewModal = Shown(Null, 0, <<>>)

\* The mount effect: checkExistingAuth up to its first await, the local
\* authService.hasToken().
Mount ==
  /\ startupPc = "mount"
  /\ dispatch(AuthStart)
  /\ startupPc' = "hasToken"
  /\ startupRuns' = startupRuns + 1
  /\ lastStep' = Step("checkExistingAuth", "call", Pending(AuthStart), 0, NoOutcome, "n/a")
  /\ UNCHANGED <<storageMode, awaiting, remote, validateCalls, serviceVars, screenVars>>

\* checkExistingAuth from the answer of hasToken to the end or to the await
\* of validateToken.
StartupHasToken ==
  /\ startupPc = "hasToken"
  /\ \E r \in HasTokenResults :
       LET h == checkExistingAuthHasToken(r) IN
         /\ dispatch(h.action)
         /\ startupPc' = h.next
         /\ validateCalls' = IF h.next = "validateToken" THEN validateCalls + 1
                                                         ELSE validateCalls
         /\ lastStep' = IF h.next = "validateToken"
                          THEN Step("checkExistingAuth", "await", Pending(NoAction), 1, NoOutcome, r)
                          ELSE Step("checkExistingAuth", "return", ResolvedVoid(h.action), 0, NoOutcome, r)
  /\ UNCHANGED <<storageMode, awaiting, remote, startupRuns, serviceVars, screenVars>>

\* checkExistingAuth from the answer of validateToken to the end.
StartupValidate ==
  /\ startupPc = "validateToken"
  /\ \E out \in Outcomes(UserResponses) :
       /\ dispatch(checkExistingAuthValidate(out).action)
       /\ lastStep' = Step("checkExistingAuth", "return", checkExistingAuthValidate(out), 0, out, "true")
  /\ startupPc' = "done"
  /\ UNCHANGED <<storageMode, awaiting, remote, validateCalls, startupRuns, serviceVars, screenVars>>

LoginCall ==
  /\ CanInvoke
  /\ Invoke("login", AuthStart)

LoginReturn ==
  /\ awaiting["login"] > 0
  /\ \E out \in Outcomes(SessionResponses) : Settle("login", out, login(out))

RegisterCall ==
  /\ CanInvoke
  /\ Invoke("register", AuthStart)

RegisterReturn ==
  /\ awaiting["register"] > 0
  /\ \E out \in Outcomes(SessionResponses) : Settle("register", out, register(out))

LogoutCall ==
  /\ CanInvoke
  /\ Invoke("logout", NoAction)

LogoutReturn ==
  /\ awaiting["logout"] > 0
  /\ \E out \in Outcomes(VoidResponses) : Settle("logout", out, logout(out))

UpdateProfileCall ==
  /\ CanInvoke
  /\ Invoke("updateProfile", NoAction)

UpdateProfileReturn ==
  /\ awaiting["updateProfile"] > 0
  /\ \E out \in Outcomes(UserResponses) : Settle("updateProfile", out, updateProfile(out))

ChangePasswordCall ==
  /\ CanInvoke
  /\ Invoke("changePassword", NoAction)

ChangePasswordReturn ==
  /\ awaiting["changePassword"] > 0
  /\ \E out \in Outcomes(PlainResponses) : Settle("changePassword", out, changePassword(out))

RefreshUserCall ==
  /\ CanInvoke
  /\ Invoke("refreshUser", NoAction)

RefreshUserReturn ==
  /\ awaiting["refreshUser"] > 0
  /\ \E out \in Outcomes(ProfileResponses) : Settle("refreshUser", out, refreshUser(out))

\* clearError: synchronous.
ClearErrorCall ==
  /\ startupPc # "mount"
  /\ dispatch(ClearError)
  /\ lastStep' = Step("clearError", "return", ResolvedVoid(ClearError), 0, NoOutcome, "n/a")
  /\ UNCHANGED <<storageMode, startupPc, awaiting, remote, validateCalls, startupRuns,
                 serviceVars, screenVars>>

Next ==
  \/ Mount
  \/ StartupHasToken
  \/ StartupValidate
  \/ LoginCall
  \/ LoginReturn
  \/ RegisterCall
  \/ RegisterReturn
  \/ LogoutCall
  \/ LogoutReturn
  \/ UpdateProfileCall
  \/ UpdateProfileReturn
  \/ ChangePasswordCall
  \/ ChangePasswordReturn
  \/ RefreshUserCall
  \/ RefreshUserReturn
  \/ ClearErrorCall

Spec == Init /\ [][Next]_vars

(* ---------------------------------------------------------------------- *)
(* The reducer alone, driven by every sequence of actions                   *)
(* ---------------------------------------------------------------------- *)

ReducerStep ==
  /\ \E action \in AuthActions :
       /\ dispatch(action)
       /\ lastStep' = Step("authReducer", "return", ResolvedVoid(action), 0, NoOutcome, "n/a")
  /\ UNCHANGED <<storageMode, startupPc, awaiting, remote, validateCalls, startupRuns,
                 serviceVars, screenVars>>

SpecReducer == Init /\ [][ReducerStep]_vars

(* ---------------------------------------------------------------------- *)
(* BarService: one action per method                                        *)
(* ---------------------------------------------------------------------- *)

\* An invocation runs from the call to the settlement of its promise: the
\* service keeps no state, so what happens between the two changes nothing
\* it reads. The userId argument, the answer of authService.getCurrentUser()
\* and the answer of the HTTP client are inputs.
\* The methods made of try { return await this.api.get(..) } catch (error)
\* { HandleLoginError(error); throw error }, allBars apart.
RethrowingMethods ==
  {"getBarById", "getMenuByBarId", "getFoodByBarId", "getDrinksByBarId",
   "getAlcoholByBarId", "getEventsByBarId", "getReviewsByBarId",
   "getBarReviewStats", "getAllEvents", "getMyProfile", "updateProfile",
   "getFavorites"}

AllBars ==
  /\ \E http \in HttpOutcomes :
       lastCall' = Invoked("allBars", Undefined, Null, GetOrRethrow(asyncStorage, http))
  /\ UNCHANGED <<sessionVars, asyncStorage, screenVars>>

RethrowingCall ==
  /\ \E method \in RethrowingMethods, http \in HttpOutcomes :
       lastCall' = Invoked(method, Undefined, Null, GetOrRethrow(asyncStorage, http))
  /\ UNCHANGED <<sessionVars, asyncStorage, screenVars>>

GetUserReviewCount ==
  /\ \E userId \in Users \cup {Undefined}, currentUser \in Users \cup {Null}, http \in HttpOutcomes :
       lastCall' = Invoked("getUserReviewCount", userId, currentUser,
                           getUserReviewCount(userId, currentUser, asyncStorage, http))
  /\ UNCHANGED <<sessionVars, asyncStorage, screenVars>>

GetMenuItemById ==
  /\ \E http \in HttpOutcomes :
       lastCall' = Invoked("getMenuItemById", Undefined, Null,
                           getMenuItemById(Undefined, Null, asyncStorage, http))
  /\ UNCHANGED <<sessionVars, asyncStorage, screenVars>>

CreateReview ==
  /\ \E currentUser \in Users \cup {Null}, http \in HttpOutcomes :
       lastCall' = Invoked("createReview", Undefined, currentUser,
                           createReview(Undefined, currentUser, asyncStorage, http))
  /\ UNCHANGED <<sessionVars, asyncStorage, screenVars>>

UpdateReview ==
  /\ \E currentUser \in Users \cup {Null}, http \in HttpOutcomes :
       lastCall' = Invoked("updateReview", Undefined, currentUser,
                           updateReview(Undefined, currentUser, asyncStorage, http))
  /\ UNCHANGED <<sessionVars, asyncStorage, screenVars>>

DeleteReview ==
  /\ \E currentUser \in Users \cup {Null}, http \in HttpOutcomes :
       lastCall' = Invoked("deleteReview", Undefined, currentUser,
                           deleteReview(Undefined, currentUser, asyncStorage, http))
  /\ UNCHANGED <<sessionVars, asyncStorage, screenVars>>

CheckUserReview ==
  /\ \E currentUser \in Users \cup {Null}, http \in HttpOutcomes :
       lastCall' = Invoked("checkUserReview", Undefined, currentUser,
                           checkUserReview(Undefined, currentUser, asyncStorage, http))
  /\ UNCHANGED <<sessionVars, asyncStorage, screenVars>>

GetUserReviews ==
  /\ \E userId \in Users \cup {Undefined}, currentUser \in Users \cup {Null}, http \in HttpOutcomes :
       lastCall' = Invoked("getUserReviews", userId, currentUser,
                           getUserReviews(userId, currentUser, asyncStorage, http))
  /\ UNCHANGED <<sessionVars, asyncStorage, screenVars>>

GetEventById ==
  /\ \E http \in HttpOutcomes :
       lastCall' = Invoked("getEventById", Undefined, Null,
                           getEventById(Undefined, Null, asyncStorage, http))
  /\ UNCHANGED <<sessionVars, asyncStorage, screenVars>>

AddBarToFavorites ==
  /\ \E currentUser \in Users \cup {Null}, http \in HttpOutcomes :
       lastCall' = Invoked("addBarToFavorites", Undefined, currentUser,
                           addBarToFavorites(Undefined, currentUser, asyncStorage, http))
  /\ UNCHANGED <<sessionVars, asyncStorage, screenVars>>

RemoveBarFromFavorites ==
  /\ \E currentUser \in Users \cup {Null}, http \in HttpOutcomes :
       lastCall' = Invoked("removeBarFromFavorites", Undefined, currentUser,
                           removeBarFromFavorites(Undefined, currentUser, asyncStorage, http))
  /\ UNCHANGED <<sessionVars, asyncStorage, screenVars>>

IsBarFavorite ==
  /\ \E currentUser \in Users \cup {Null}, http \in HttpOutcomes :
       lastCall' = Invoked("isBarFavorite", Undefined, currentUser,
                           isBarFavorite(Undefined, currentUser, asyncStorage, http))
  /\ UNCHANGED <<sessionVars, asyncStorage, screenVars>>

\* The service alone, under every content of AsyncStorage's 'authToken' entry.
InitBarService ==
  /\ SessionInit
  /\ asyncStorage \in {Null, StaleToken}
  /\ lastCall = NoCall
  /\ platform = "web"
  /\ addMenuItemScreen = Opened(emptyForm)
  /\ reviewModal = Shown(Null, 0, <<>>)

NextBarService ==
  \/ RethrowingCall
  \/ GetUserReviewCount
  \/ AllBars
  \/ GetMenuItemById
  \/ CreateReview
  \/ UpdateReview
  \/ DeleteReview
  \/ CheckUserReview
  \/ GetUserReviews
  \/ GetEventById
  \/ AddBarToFavorites
  \/ RemoveBarFromFavorites
  \/ IsBarFavorite

SpecBarService == InitBarService /\ [][NextBarService]_vars

\* The service next to the session manager, from a first run with nothing
\* stored: startup, login and logout persist and remove the session token
\* while requests are sent. Nothing writes AsyncStorage's 'authToken'.
InitSessionRequests ==
  /\ SessionInit
  /\ localStorage = Null
  /\ asyncStorage = Null
  /\ lastCall = NoCall
  /\ platform = "web"
  /\ addMenuItemScreen = Opened(emptyForm)
  /\ reviewModal = Shown(Null, 0, <<>>)

NextSessionRequests ==
  \/ Mount
  \/ StartupHasToken
  \/ StartupValidate
  \/ LoginCall
  \/ LoginReturn
  \/ LogoutCall
  \/ LogoutReturn
  \/ AllBars

SpecSessionRequests == InitSessionRequests /\ [][NextSessionRequests]_vars

(* ---------------------------------------------------------------------- *)
(* AddMenuItemScreen: one action per handler                                *)
(* ---------------------------------------------------------------------- *)

\* A handler runs to its end or to its await and the screen is rendered
\* again before the next event is delivered.
SelectType ==
  /\ Interactive(addMenuItemScreen)
  /\ \E type \in ItemTypes :
       addMenuItemScreen' = [addMenuItemScreen EXCEPT !.form.type = type,
                                                      !.last = Handled("setForm", FALSE, 0)]
  /\ UNCHANGED <<sessionVars, serviceVars, platform, reviewModal>>

\* A press on the submit button; no handler runs when it is disabled.
PressSubmit ==
  /\ Interactive(addMenuItemScreen)
  /\ addMenuItemScreen' =
       IF SubmitEnabled(addMenuItemScreen)
         THEN handleSubmit(addMenuItemScreen)
         ELSE [addMenuItemScreen EXCEPT !.last = Handled("none", FALSE, 0)]
  /\ UNCHANGED <<sessionVars, serviceVars, platform, reviewModal>>

\* BusinessService.addMenuItem settles and handleSubmit runs to its end.
AddMenuItemReturn ==
  /\ addMenuItemScreen.pending > 0
  /\ \E resolved \in BOOLEAN :
       addMenuItemScreen' = handleSubmitReturn(addMenuItemScreen, platform, resolved)
  /\ UNCHANGED <<sessionVars, serviceVars, platform, reviewModal>>

\* The cancel button (disabled while loading) and the header's back button.
PressCancel ==
  /\ Interactive(addMenuItemScreen)
  /\ ~addMenuItemScreen.loading
  /\ addMenuItemScreen' = [addMenuItemScreen EXCEPT !.mounted = FALSE,
                                                    !.last = Handled("goBack", FALSE, 0)]
  /\ UNCHANGED <<sessionVars, serviceVars, platform, reviewModal>>

PressBack ==
  /\ Interactive(addMenuItemScreen)
  /\ addMenuItemScreen' = [addMenuItemScreen EXCEPT !.mounted = FALSE,
                                                    !.last = Handled("goBack", FALSE, 0)]
  /\ UNCHANGED <<sessionVars, serviceVars, platform, reviewModal>>

\* The native alert's button: OK of the success alert goes back.
DismissAlert ==
  /\ addMenuItemScreen.alert # "none"
  /\ addMenuItemScreen' =
       [addMenuItemScreen EXCEPT !.alert = "none",
                                 !.mounted = IF addMenuItemScreen.alert = "success"
                                               THEN FALSE ELSE @,
                                 !.last = Handled("alert", FALSE, 0)]
  /\ UNCHANGED <<sessionVars, serviceVars, platform, reviewModal>>

\* handleSuccessModalClose and navigateToMainPage: both leave the screen.
CloseSuccessModal ==
  /\ addMenuItemScreen.showSuccessModal
  /\ addMenuItemScreen' = [addMenuItemScreen EXCEPT !.showSuccessModal = FALSE,
                                                    !.mounted = FALSE,
                                                    !.last = Handled("closeModal", FALSE, 0)]
  /\ UNCHANGED <<sessionVars, serviceVars, platform, reviewModal>>

InitAddMenuItem ==
  /\ SessionInit
  /\ storageMode = "ok"
  /\ localStorage = Null
  /\ asyncStorage = Null
  /\ lastCall = NoCall
  /\ platform \in Platforms
  /\ \E form \in Forms : addMenuItemScreen = Opened(form)
  /\ reviewModal = Shown(Null, 0, <<>>)

NextAddMenuItem ==
  \/ SelectType
  \/ PressSubmit
  \/ AddMenuItemReturn
  \/ PressCancel
  \/ PressBack
  \/ DismissAlert
  \/ CloseSuccessModal

SpecAddMenuItem == InitAddMenuItem /\ [][NextAddMenuItem]_vars

(* ---------------------------------------------------------------------- *)
(* ReviewModal: one action per event                                        *)
(* ---------------------------------------------------------------------- *)

\* A star: onPress={() => setRating(i)}, disabled={loading}.
PressStar ==
  /\ ModalInteractive(reviewModal)
  /\ \E i \in 1..MaxRating :
       reviewModal' = IF reviewModal.loading
                        THEN Ignored(reviewModal, "pressStar")
                        ELSE [reviewModal EXCEPT !.rating = i,
                                                 !.last = Ran(reviewModal, "pressStar", "setRating", 0)]
  /\ UNCHANGED <<sessionVars, serviceVars, platform, addMenuItemScreen>>

ReviewPressSubmit ==
  /\ ModalInteractive(reviewModal)
  /\ reviewModal' = IF ReviewSubmitDisabled(reviewModal)
                      THEN Ignored(reviewModal, "pressSubmit")
                      ELSE ReviewModal_handleSubmit(reviewModal, platform, "pressSubmit")
  /\ UNCHANGED <<sessionVars, serviceVars, platform, addMenuItemScreen>>

\* BarService.createReview / updateReview settles and handleSubmit runs to
\* its end.
SubmitReviewReturn ==
  /\ reviewModal.pendingSubmit > 0
  /\ \E resolved \in BOOLEAN :
       reviewModal' = ReviewModal_handleSubmitReturn(reviewModal, platform, resolved)
  /\ UNCHANGED <<sessionVars, serviceVars, platform, addMenuItemScreen>>

\* The delete button: rendered for an existing review, disabled={loading}.
PressDelete ==
  /\ ModalInteractive(reviewModal)
  /\ reviewModal.existingReview # Null
  /\ reviewModal' = IF reviewModal.loading
                      THEN Ignored(reviewModal, "pressDelete")
                      ELSE handleDeleteReview(reviewModal, platform, "pressDelete")
  /\ UNCHANGED <<sessionVars, serviceVars, platform, addMenuItemScreen>>

\* Delete of the confirmation modal (disabled={loading}) or of the native alert.
ConfirmDelete ==
  /\ Confirming(reviewModal)
  /\ reviewModal' =
       IF reviewModal.alert = "confirmDelete"
         THEN [performDelete(reviewModal, platform, "confirmDelete") EXCEPT !.alert = "none"]
         ELSE IF reviewModal.loading
           THEN Ignored(reviewModal, "confirmDelete")
           ELSE performDelete(reviewModal, platform, "confirmDelete")
  /\ reviewModal.alert \in {"none", "confirmDelete"}
  /\ UNCHANGED <<sessionVars, serviceVars, platform, addMenuItemScreen>>

\* Cancel of the confirmation modal (disabled={loading}), its
\* onRequestClose, or Cancel / dismissal of the native alert.
CancelDelete ==
  /\ Confirming(reviewModal)
  /\ reviewModal.alert \in {"none", "confirmDelete"}
  /\ \E requestClose \in BOOLEAN :
       reviewModal' =
         IF reviewModal.alert = "confirmDelete"
           THEN [reviewModal EXCEPT !.alert = "none",
                                    !.last = Ran(reviewModal, "cancelDelete", "none", 0)]
           ELSE IF reviewModal.loading /\ ~requestClose
             THEN Ignored(reviewModal, "cancelDelete")
             ELSE [reviewModal EXCEPT !.showDeleteConfirmation = FALSE,
                                      !.last = Ran(reviewModal, "cancelDelete",
                                                   "setShowDeleteConfirmation", 0)]
  /\ UNCHANGED <<sessionVars, serviceVars, platform, addMenuItemScreen>>

\* BarService.deleteReview settles and performDelete runs to its end.
DeleteReviewReturn ==
  /\ reviewModal.pendingDelete > 0
  /\ \E resolved \in BOOLEAN :
       reviewModal' = performDeleteReturn(reviewModal, platform, resolved)
  /\ UNCHANGED <<sessionVars, serviceVars, platform, addMenuItemScreen>>

\* The button of a native alert that reports an error or a success.
DismissReviewAlert ==
  /\ reviewModal.alert \in {"error", "success"}
  /\ reviewModal' = [reviewModal EXCEPT !.alert = "none",
                                        !.last = Ran(reviewModal, "dismissAlert", "none", 0)]
  /\ UNCHANGED <<sessionVars, serviceVars, platform, addMenuItemScreen>>

\* The close button (disabled={loading}) and the modal's onRequestClose.
PressClose ==
  /\ ModalInteractive(reviewModal)
  /\ reviewModal' = handleClose(reviewModal, platform, "pressClose")
  /\ UNCHANGED <<sessionVars, serviceVars, platform, addMenuItemScreen>>

InitReviewModal ==
  /\ SessionInit
  /\ storageMode = "ok"
  /\ localStorage = Null
  /\ asyncStorage = Null
  /\ lastCall = NoCall
  /\ platform \in Platforms
  /\ addMenuItemScreen = Opened(emptyForm)
  /\ \E existingReview \in {Null, "r1"}, existingRating \in 1..MaxRating,
        comment \in Comments :
       reviewModal = Shown(existingReview, existingRating, comment)

NextReviewModal ==
  \/ PressStar
  \/ ReviewPressSubmit
  \/ SubmitReviewReturn
  \/ PressDelete
  \/ ConfirmDelete
  \/ CancelDelete
  \/ DeleteReviewReturn
  \/ DismissReviewAlert
  \/ PressClose

SpecReviewModal == InitReviewModal /\ [][NextReviewModal]_vars

(* ---------------------------------------------------------------------- *)
(* The two forms side by side                                               *)
(* ---------------------------------------------------------------------- *)

validForm ==
  [name |-> <<"x">>, description |-> <<"x">>, price |-> <<"1">>, photo |-> "",
   type |-> "alcohol", alcoholPercentage |-> <<"1">>, volume |-> <<>>]

\* Both forms filled in, each with content that passes its checks or with
\* content that does not.
InitForms ==
  /\ SessionInit
  /\ storageMode = "ok"
  /\ localStorage = Null
  /\ asyncStorage = Null
  /\ lastCall = NoCall
  /\ platform \in Platforms
  /\ \E name \in {<<>>, <<"x">>} :
       addMenuItemScreen = Opened([validForm EXCEPT !.name = name])
  /\ \E existingReview \in {Null, "r1"},
        comment \in {Word(MinCommentLength), Word(MinCommentLength - 1)} :
       reviewModal = Shown(existingReview, MaxRating, comment)

NextForms ==
  \/ NextAddMenuItem
  \/ NextReviewModal

SpecForms == InitForms /\ [][NextForms]_vars

\* The two forms with every call they await settling in the end: each is an
\* HTTP request, which the client ends by a response, an error or its timeout.
FairSpecForms ==
  /\ SpecForms
  /\ WF_vars(AddMenuItemReturn)
  /\ WF_vars(SubmitReviewReturn)
  /\ WF_vars(DeleteReviewReturn)

(* ---------------------------------------------------------------------- *)
(* BusinessProtectedRoute                                                   *)
(* ---------------------------------------------------------------------- *)

\* user.accountType: u1 holds a business account, u2 an ordinary one.
accountType(user) == IF user = "u1" THEN "business" ELSE "user"

Views == {"loading", "must log in", "business account required", "children"}

\* The guard letting every authenticated user through.
BusinessProtectedRouteAnyAccount(isLoading, isAuthenticated, user) ==
  IF isLoading
    THEN "loading"
    ELSE IF ~isAuthenticated \/ ~Truthy(user)
      THEN "must log in"
      ELSE "children"

\* What the guard renders for the session useAuth() returns.
BusinessProtectedRoute(isLoading, isAuthenticated, user) ==
  IF isLoading
    THEN "loading"
    ELSE IF ~isAuthenticated \/ ~Truthy(user)
      THEN "must log in"
      ELSE IF accountType(user) # "business"
        THEN "business account required"
        ELSE "children"

(* ---------------------------------------------------------------------- *)
(* Properties                                                               *)
(* ---------------------------------------------------------------------- *)

TypeOK ==
  /\ state \in [isAuthenticated : BOOLEAN, isLoading : BOOLEAN,
                user : Users \cup {Null, Undefined},
                error : STRING]
  /\ globalCurrentUser \in Users \cup {Null, Undefined}
  /\ localStorage \in Tokens \cup {Null, StaleToken}
  /\ storageMode \in StorageModes
  /\ startupPc \in {"mount", "hasToken", "validateToken", "done"}
  /\ awaiting \in [AsyncOps -> 0..MaxInFlight]
  /\ remote \in [AsyncOps -> Nat]

\* The session with nobody logged in and nothing pending, carrying error e.
Settled(e) ==
  [isAuthenticated |-> FALSE, isLoading |-> FALSE, user |-> Null, error |-> e]

\* The session of a logged-in user u.
Authenticated(u) ==
  [isAuthenticated |-> TRUE, isLoading |-> FALSE, user |-> u, error |-> Null]

\* The error state: nobody logged in, nothing pending, a non-empty message.
ErrorState ==
  /\ ~state.isAuthenticated
  /\ ~state.isLoading
  /\ state.user = Null
  /\ Truthy(state.error)

\* The last step was the end of method op.
Returned(op) == lastStep.op = op /\ lastStep.phase = "return"

\* The awaited call did not yield a successful response with a user.
Rejects(out) == out.threw \/ ~(out.resp.success /\ Truthy(out.resp.user))

\* The awaited call failed: it threw or answered success = false.
Fails(out) == out.threw \/ ~out.resp.success

\* C1: in every reachable session state of the session manager,
\* isAuthenticated = true implies that user is a user (not null).
C1_AuthenticatedHasUser ==
  state.isAuthenticated => state.user \in Users

\* C1 witness: an authenticated session with a user while a logout and the
\* startup check are still in flight.
C1_Witness ==
  /\ state.isAuthenticated
  /\ state.user \in Users
  /\ awaiting["logout"] > 0
  /\ startupPc = "validateToken"

\* C2: after every sequence of reducer actions from the initial session,
\* isAuthenticated is true exactly when the most recent settling action was
\* AUTH_SUCCESS (which carries a user); it is false after AUTH_FAILURE,
\* AUTH_LOGOUT, AUTH_COMPLETE_WITHOUT_USER and before any settling action,
\* and AUTH_START, UPDATE_USER, CLEAR_ERROR leave it as it was.
C2_AuthenticatedIffLastSettlingSuccess ==
  /\ state.isAuthenticated <=> lastSettling = "AUTH_SUCCESS"
  /\ lastSettling \in {"NONE", "AUTH_FAILURE", "AUTH_LOGOUT", "AUTH_COMPLETE_WITHOUT_USER"}
       => ~state.isAuthenticated
  /\ state.isAuthenticated => state.user \in Users

\* C2 witness: a non-settling action has just run on a session that an
\* earlier AUTH_SUCCESS authenticated, and the session is still authenticated.
C2_Witness ==
  /\ Returned("authReducer")
  /\ lastStep.action.type \in {"AUTH_START", "UPDATE_USER", "CLEAR_ERROR"}
  /\ lastSettling = "AUTH_SUCCESS"
  /\ state.isAuthenticated

\* C3 as stated: isLoading = true never holds together with
\* isAuthenticated = true, nor together with error not null.
C3_LoadingExcludesSettled ==
  state.isLoading => (~state.isAuthenticated /\ state.error = Null)

\* C3 amended: isLoading = true never holds together with error not null; it
\* holds together with isAuthenticated = true only while a login or register
\* is in flight (one started from an authenticated session, whose AUTH_START
\* keeps isAuthenticated and user).
C3_LoadingExcludesError ==
  state.isLoading =>
    /\ state.error = Null
    /\ state.isAuthenticated => awaiting["login"] + awaiting["register"] > 0

\* C3 witness: login or register was called on an authenticated session, which
\* is now loading and still authenticated.
C3_Witness ==
  /\ lastStep.op \in {"login", "register"}
  /\ lastStep.phase = "call"
  /\ state.isLoading
  /\ state.isAuthenticated

\* C4: whenever logout() completes the session is unauthenticated
\* (isAuthenticated = false, user = null, isLoading = false, error = null),
\* whether the remote logout succeeded or threw, and logout resolves.
C4_LogoutAlwaysClears ==
  Returned("logout") =>
    /\ lastStep.outcome = "resolved"
    /\ lastStep.action = AuthLogout
    /\ state = Settled(Null)

\* C4 witness: logout completed after its remote call threw, and the session
\* is unauthenticated.
C4_Witness ==
  /\ Returned("logout")
  /\ lastStep.out.threw
  /\ state = Settled(Null)
  /\ lastStep.tokenBefore = StaleToken

\* C5: when the startup check found a token and the remote validation
\* rejected it (no success or no user, or the call threw), the session is
\* unauthenticated (isAuthenticated = false, isLoading = false, user = null)
\* and no token is left in the token store.
C5_RejectedTokenRemoved ==
  (Returned("checkExistingAuth") /\ lastStep.hasToken = "true" /\ Rejects(lastStep.out)) =>
    /\ ~state.isAuthenticated
    /\ ~state.isLoading
    /\ state.user = Null
    /\ localStorage = Null
    /\ getToken(localStorage, storageMode) = Null

\* C5 witness: the startup check ended on a rejected validation with a token
\* in the store before the step and none after it.
C5_Witness ==
  /\ Returned("checkExistingAuth")
  /\ lastStep.hasToken = "true"
  /\ ~lastStep.out.threw
  /\ ~lastStep.out.resp.success
  /\ lastStep.tokenBefore = StaleToken
  /\ localStorage = Null

\* C6: the startup check runs once; when hasToken answers false it ends in
\* that step with the unauthenticated session (isLoading = false, user = null,
\* error = null) and validateToken is never called; when hasToken answers
\* true validateToken is called exactly once, and the check ends
\* authenticated with the user of a successful response or else in the error
\* state.
C6_StartupCheck ==
  /\ startupRuns <= 1
  /\ validateCalls <= 1
  /\ startupPc # "mount" => startupRuns = 1
  /\ (lastStep.op = "checkExistingAuth" /\ lastStep.hasToken = "false") =>
       /\ lastStep.phase = "return"
       /\ lastStep.requests = 0
       /\ validateCalls = 0
       /\ startupPc = "done"
       /\ state = Settled(Null)
  /\ (lastStep.op = "checkExistingAuth" /\ lastStep.hasToken = "true") =>
       /\ validateCalls = 1
       /\ lastStep.phase = "await" => lastStep.requests = 1
       /\ lastStep.phase = "return" =>
            /\ lastStep.requests = 0
            /\ IF Rejects(lastStep.out)
                 THEN ErrorState
                 ELSE state = Authenticated(lastStep.out.resp.user)

\* C6 witness: the startup check found a token, validated it once and ended
\* authenticated with the user of the response.
C6_Witness ==
  /\ Returned("checkExistingAuth")
  /\ lastStep.hasToken = "true"
  /\ ~Rejects(lastStep.out)
  /\ validateCalls = 1
  /\ state = Authenticated("u2")

\* C7: login never rejects; when the remote login fails (success = false, or
\* a thrown error) the session is in the error state (isAuthenticated = false,
\* isLoading = false, user = null, error a non-empty message) and login
\* resolves with a response whose success flag is false.
C7_LoginFailureResolves ==
  Returned("login") =>
    /\ lastStep.outcome = "resolved"
    /\ lastStep.returns = "response"
    /\ Fails(lastStep.out) =>
         /\ ErrorState
         /\ lastStep.ret.success = FALSE

\* C7 witness: a login ended after its remote call threw, and the session
\* carries the message of the catch block.
C7_Witness ==
  /\ Returned("login")
  /\ lastStep.out.threw
  /\ lastStep.outcome = "resolved"
  /\ state.error = "Error durante el login"

\* The last step ended a login whose remote call answered success with a user.
LoginSucceeded ==
  /\ Returned("login")
  /\ ~lastStep.out.threw
  /\ lastStep.out.resp.success
  /\ Truthy(lastStep.out.resp.user)

\* C8 as stated: when the remote login succeeds, after login() completes the
\* session is authenticated with the user of the response (isLoading = false,
\* error = null) and the token of the response is in the token store, so
\* that getToken returns it.
C8_LoginPersistsToken ==
  (LoginSucceeded /\ Truthy(lastStep.out.resp.token)) =>
    /\ state = Authenticated(lastStep.out.resp.user)
    /\ getToken(localStorage, storageMode) = lastStep.out.resp.token

\* C8 amended: when the remote login succeeds, after login() completes the
\* session is authenticated with the user of the response (isLoading = false,
\* error = null); the token of the response is in the token store, and
\* getToken returns it, when the response carries a token and localStorage
\* takes the write; otherwise getToken returns what it returned before.
C8_LoginPersistsTokenIfStorable ==
  LoginSucceeded =>
    /\ state = Authenticated(lastStep.out.resp.user)
    /\ lastStep.ret = lastStep.out.resp
    /\ IF Truthy(lastStep.out.resp.token) /\ storageMode = "ok"
         THEN getToken(localStorage, storageMode) = lastStep.out.resp.token
         ELSE getToken(localStorage, storageMode) = lastStep.tokenBefore

\* C8 witness: a successful login replaced the token of an earlier run by
\* the token of the response.
C8_Witness ==
  /\ LoginSucceeded
  /\ lastStep.tokenBefore = StaleToken
  /\ lastStep.out.resp.token = "t1"
  /\ getToken(localStorage, storageMode) = "t1"
  /\ state.user = lastStep.out.resp.user

\* The methods C9 is about.
C9_Ops == {"register", "updateProfile", "changePassword", "refreshUser"}

\* C9: register, updateProfile, changePassword and refreshUser each invoke
\* exactly one authService operation per call and never reject; a remote
\* failure (success = false) or a thrown error becomes a resolved result:
\* success = false with a message for the three that return a response,
\* plain resolution for refreshUser.
C9_ResolveNotThrow ==
  /\ \A op \in C9_Ops : remote[op] = awaiting[op]
  /\ lastStep.op \in C9_Ops =>
       /\ lastStep.phase = "call" => lastStep.requests = 1
       /\ lastStep.phase = "return" =>
            /\ lastStep.requests = 0
            /\ lastStep.outcome = "resolved"
            /\ IF lastStep.op = "refreshUser"
                 THEN lastStep.returns = "void"
                 ELSE /\ lastStep.returns = "response"
                      /\ Fails(lastStep.out) =>
                           /\ lastStep.ret.success = FALSE
                           /\ Truthy(lastStep.ret.message)

\* C9 witness: updateProfile ended after its remote call threw, resolved with
\* the response of its catch block.
C9_Witness ==
  /\ Returned("updateProfile")
  /\ lastStep.out.threw
  /\ lastStep.outcome = "resolved"
  /\ lastStep.ret = ErrorResponse("Error al actualizar perfil")

\* The last step ended the startup check on a failure: hasToken threw, or
\* the validation was rejected or threw.
StartupFailed ==
  /\ Returned("checkExistingAuth")
  /\ \/ lastStep.hasToken = "throw"
     \/ lastStep.hasToken = "true" /\ Rejects(lastStep.out)

\* C10 as stated: an authentication failure during the startup check leaves
\* the session of a no-token startup (isAuthenticated = false,
\* isLoading = false, user = null, error = null).
C10_StartupFailureSilent ==
  StartupFailed => state = Settled(Null)

\* C10 amended: an authentication failure during the startup check falls
\* back to the unauthenticated session, not loading (isAuthenticated = false,
\* isLoading = false, user = null), with error set to a non-empty message:
\* the session of a no-token startup except for error.
C10_StartupFailureUnauthenticated ==
  StartupFailed =>
    /\ state = Settled(state.error)
    /\ state.error \in {ServerMessage, "Token inválido o expirado",
                        "Error al verificar autenticación"}

\* C10 witness: the startup check ended because validateToken threw, and the
\* session is unauthenticated with the message of the catch block.
C10_Witness ==
  /\ StartupFailed
  /\ lastStep.out.threw
  /\ state = Settled("Error al verificar autenticación")

\* C11: when logout completes, whether its remote call succeeded or threw,
\* getToken returns null; and from then on getToken returns a token again
\* only by a step that ends a login or register with AUTH_SUCCESS.
C11_LogoutRemovesToken ==
  /\ [](Returned("logout") => getToken(localStorage, storageMode) = Null)
  /\ [][(/\ getToken(localStorage, storageMode) = Null
         /\ getToken(localStorage', storageMode') # Null)
          => /\ lastStep'.op \in {"login", "register"}
             /\ lastStep'.phase = "return"
             /\ lastStep'.action.type = "AUTH_SUCCESS"
             /\ getToken(localStorage', storageMode') = lastStep'.action.token]_vars

\* C11 witness: logout completed after its remote call threw; the token of an
\* earlier run was in the store before the step and getToken returns null.
C11_Witness ==
  /\ Returned("logout")
  /\ lastStep.out.threw
  /\ lastStep.tokenBefore = StaleToken
  /\ getToken(localStorage, storageMode) = Null
  /\ storageMode = "ok"

\* An invocation that found no identity: authService has no current user
\* and, where the method takes a userId argument, none was passed.
NoIdentity(call) ==
  /\ call.method \in IdentityMethods
  /\ ~Truthy(call.currentUser)
  /\ call.method \in OptionalUserIdMethods => ~Truthy(call.userId)

NotAuthenticated(call) ==
  /\ call.outcome = "rejected"
  /\ call.error = Error("User not authenticated")

\* The identity methods that answer a question with a boolean.
QueryMethods == {"checkUserReview", "isBarFavorite"}

\* C12 as stated: every identity method invoked without a current user raises
\* 'User not authenticated' and sends no HTTP request.
C12_FailFast ==
  NoIdentity(lastCall) => NotAuthenticated(lastCall) /\ lastCall.requests = 0

\* C12: an identity method invoked without a current user sends no HTTP
\* request; it raises 'User not authenticated', except checkUserReview and
\* isBarFavorite, which resolve to their negative answer instead of raising.
C12_FailFastOrNegative ==
  NoIdentity(lastCall) =>
    /\ lastCall.requests = 0
    /\ lastCall.method \notin QueryMethods => NotAuthenticated(lastCall)
    /\ lastCall.method \in QueryMethods =>
         lastCall.outcome = "resolved" /\ lastCall.value = "false"

\* C12 witness: deleteReview invoked with no current user was rejected with
\* 'User not authenticated' before any request.
C12_Witness ==
  /\ lastCall.method = "deleteReview"
  /\ NoIdentity(lastCall)
  /\ NotAuthenticated(lastCall)
  /\ lastCall.requests = 0

\* C13: an invocation of a BarService method sends at most one HTTP request,
\* and exactly one unless it is an identity method that found no identity:
\* a request that failed is not sent again and no answer is served without
\* a request.
C13_OneRequestPerInvocation ==
  lastCall.method # "none" =>
    /\ lastCall.requests <= 1
    /\ lastCall.requests = 1 <=> ~NoIdentity(lastCall)
    /\ lastCall.requests = 1 <=> lastCall.http \in HttpOutcomes

\* C13 witness: createReview with a current user sent its one request, the
\* request failed, and the invocation ended without a second one.
C13_Witness ==
  /\ lastCall.method = "createReview"
  /\ Truthy(lastCall.currentUser)
  /\ lastCall.http.kind = "axios"
  /\ lastCall.outcome = "rejected"
  /\ lastCall.requests = 1

\* An invocation whose HTTP request failed.
RequestFailed(call) == call.requests = 1 /\ call.http.kind \in {"axios", "other"}

\* C14 as stated: whenever the HTTP request of an invocation fails, the
\* caller gets an error normalized to a message: the message of the response
\* body when the body has one, the transport's generic message otherwise.
C14_ErrorsNormalized ==
  RequestFailed(lastCall) =>
    /\ lastCall.outcome = "rejected"
    /\ lastCall.error = Error(OrElse(lastCall.http.bodyMessage, lastCall.http.message))

\* C15 as stated: a request sent while the session manager's token store
\* holds a token carries "Bearer <that token>", and a request sent while it
\* holds none carries no Authorization header.
C15_BearerOfPersistedToken ==
  lastCall.requests = 1 =>
    lastCall.authorization = IF lastCall.persisted # Null
                               THEN "Bearer " \o lastCall.persisted
                               ELSE Undefined

\* The screen right after handleSubmit ran validateForm on its form.
Validated == addMenuItemScreen.last.handler = "handleSubmit"

\* C16: after validateForm, with type alcohol an empty alcohol percentage or
\* a value <= 0 or > 100 leaves an error on the field and validation fails
\* (no request), a value in (0, 100] leaves no error on the field; with
\* another type the field never gets an error.
C16_AlcoholPercentageRange ==
  LET form == addMenuItemScreen.form
      value == parseFloat(form.alcoholPercentage)
      error == addMenuItemScreen.errors.alcoholPercentage
      failed == /\ error # Undefined
                /\ ~addMenuItemScreen.last.valid
                /\ addMenuItemScreen.last.requests = 0
  IN  Validated =>
        /\ form.type = "alcohol" /\ trim(form.alcoholPercentage) = <<>> => failed
        /\ form.type = "alcohol" /\ (LessEq(value, 0) \/ Greater(value, 100)) => failed
        /\ form.type = "alcohol" /\ Greater(value, 0) /\ LessEq(value, 100)
             => error = Undefined
        /\ form.type # "alcohol" => error = Undefined

\* C16 witness: an alcoholic item with percentage "100", the upper end of the
\* range, passed validation and was sent.
C16_Witness ==
  /\ Validated
  /\ addMenuItemScreen.form.type = "alcohol"
  /\ addMenuItemScreen.form.alcoholPercentage = <<"1", "0", "0">>
  /\ addMenuItemScreen.errors.alcoholPercentage = Undefined
  /\ addMenuItemScreen.last.valid
  /\ addMenuItemScreen.last.requests = 1

\* The modal right after a press on its submit button that came while no
\* request was in flight.
SubmitPressed ==
  /\ reviewModal.last.event = "pressSubmit"
  /\ ~reviewModal.last.loading

\* The call the modal made last is the create or the update of a review
\* with the rating chosen and the comment typed.
ReviewSent ==
  /\ reviewModal.last.requests = 1
  /\ reviewModal.review.method \in {"createReview", "updateReview"}
  /\ reviewModal.review.rating = reviewModal.rating
  /\ reviewModal.review.comment = trim(reviewModal.comment)

\* C17 as stated: a submit with a comment of fewer than 10 characters or
\* without a rating in 1..5 makes no call, and a submit with a comment of
\* exactly 10 characters and a rating in 1..5 makes exactly one.
C17_LengthTenAccepted ==
  SubmitPressed =>
    /\ Len(reviewModal.comment) < MinCommentLength \/ reviewModal.rating \notin 1..MaxRating
         => reviewModal.last.requests = 0
    /\ Len(reviewModal.comment) = MinCommentLength /\ reviewModal.rating \in 1..MaxRating
         => ReviewSent

\* C17: the length that counts is that of the comment without its leading
\* and trailing white space: a submit makes no call when that length is
\* under 10 or no rating in 1..5 is chosen, and exactly one call, createReview
\* or updateReview, when it is 10 or more and a rating in 1..5 is chosen.
C17_TrimmedLengthTenAccepted ==
  SubmitPressed =>
    /\ Len(trim(reviewModal.comment)) < MinCommentLength
          \/ reviewModal.rating \notin 1..MaxRating
         => reviewModal.last.requests = 0
    /\ Len(trim(reviewModal.comment)) >= MinCommentLength
          /\ reviewModal.rating \in 1..MaxRating
         => ReviewSent

\* C17 witness: a comment of exactly 10 characters, none of them a space,
\* was submitted with a rating and sent by one createReview call.
C17_Witness ==
  /\ SubmitPressed
  /\ reviewModal.comment = Word(MinCommentLength)
  /\ reviewModal.rating \in 1..MaxRating
  /\ ReviewSent
  /\ reviewModal.review.method = "createReview"
  /\ reviewModal.pendingSubmit = 1

\* C18: neither form ever has more than one call in flight, and a press on
\* the submit button that comes while the form's call is in flight runs no
\* handler and makes no call, the button being disabled.
C18_OneSubmitInFlight ==
  /\ addMenuItemScreen.pending <= 1
  /\ reviewModal.pendingSubmit + reviewModal.pendingDelete <= 1
  /\ addMenuItemScreen.loading /\ addMenuItemScreen.last.handler = "none"
       => addMenuItemScreen.last.requests = 0 /\ addMenuItemScreen.pending = 1
  /\ reviewModal.last.event = "pressSubmit" /\ reviewModal.last.loading
       => /\ reviewModal.last.handler = "none"
          /\ reviewModal.last.requests = 0
          /\ reviewModal.pendingSubmit + reviewModal.pendingDelete = 1

\* C18 witness: on each form the submit button was pressed again while the
\* call of the first press was in flight, and one call is in flight still.
C18_Witness ==
  /\ addMenuItemScreen.last.handler = "none"
  /\ addMenuItemScreen.loading
  /\ addMenuItemScreen.pending = 1
  /\ reviewModal.last.event = "pressSubmit"
  /\ reviewModal.last.loading
  /\ reviewModal.pendingSubmit = 1

\* The modal's last event called BarService.deleteReview.
DeleteSent ==
  reviewModal.last.requests = 1 /\ reviewModal.review.method = "deleteReview"

\* C19: deleteReview is called only by the event of choosing Delete in the
\* confirmation (the modal on web, the native alert elsewhere) while that
\* confirmation, put up by a press of the delete button, is on display; the
\* press of the delete button and the cancelling make no call.
C19_DeleteNeedsConfirmation ==
  /\ DeleteSent => reviewModal.last.event = "confirmDelete" /\ reviewModal.last.confirming
  /\ reviewModal.last.event \in {"pressDelete", "cancelDelete"}
       => reviewModal.last.requests = 0
  /\ reviewModal.last.event = "pressDelete" /\ reviewModal.last.handler # "none"
       => Confirming(reviewModal) /\ reviewModal.pendingDelete = 0
  /\ reviewModal.pendingDelete <= 1

\* C19 witness: on web the delete button was pressed, Delete was chosen in
\* the confirmation modal, and the one deleteReview call is in flight.
C19_Witness ==
  /\ platform = "web"
  /\ DeleteSent
  /\ reviewModal.last.event = "confirmDelete"
  /\ reviewModal.showDeleteConfirmation
  /\ reviewModal.pendingDelete = 1

\* The view the guard renders for the current session.
Rendered == BusinessProtectedRoute(state.isLoading, state.isAuthenticated, state.user)

\* C20: for every combination of isLoading, isAuthenticated and user the
\* guard renders one of its four views: loading iff isLoading; otherwise
\* 'must log in' iff not authenticated or there is no user; otherwise
\* 'business account required' iff the account type is not business;
\* otherwise the children. So it does for the session of every state.
C20_GuardViews ==
  /\ \A isLoading \in BOOLEAN, isAuthenticated \in BOOLEAN,
        user \in Users \cup {Null, Undefined} :
       LET view == BusinessProtectedRoute(isLoading, isAuthenticated, user)
           noUser == user \in {Null, Undefined}
       IN  /\ view \in Views
           /\ view = "loading" <=> isLoading
           /\ view = "must log in" <=> ~isLoading /\ (~isAuthenticated \/ noUser)
           /\ view = "business account required"
                <=> /\ ~isLoading /\ isAuthenticated /\ ~noUser
                    /\ accountType(user) # "business"
           /\ view = "children"
                <=> /\ ~isLoading /\ isAuthenticated /\ ~noUser
                    /\ accountType(user) = "business"
  /\ state.isLoading => Rendered = "loading"
  /\ ~state.isLoading /\ ~state.isAuthenticated => Rendered = "must log in"
  /\ Rendered = "children"
       => state.isAuthenticated /\ Truthy(state.user) /\ accountType(state.user) = "business"

\* C20 witness: a login of the ordinary account u2 succeeded and the guard
\* renders 'business account required' for the session.
C20_Witness ==
  /\ Returned("login")
  /\ state.isAuthenticated
  /\ ~state.isLoading
  /\ state.user = "u2"
  /\ Rendered = "business account required"

\* C21: each form goes from idle to submitting by a valid submit alone and
\* leaves submitting by the settlement of its call alone; a form that is
\* submitting stops submitting in the end; when the call settles, by success
\* or by failure, loading is false again; and a failure changes no field
\* value and leaves the submit button enabled.
C21_SubmittingEnds ==
  /\ addMenuItemScreen.loading ~> ~addMenuItemScreen.loading
  /\ reviewModal.loading ~> ~reviewModal.loading
  /\ [][/\ ~addMenuItemScreen.loading /\ addMenuItemScreen'.loading
            => /\ addMenuItemScreen'.last = Handled("handleSubmit", TRUE, 1)
               /\ addMenuItemScreen'.pending = 1
        /\ addMenuItemScreen.loading /\ ~addMenuItemScreen'.loading
            => addMenuItemScreen'.last.handler \in {"resolved", "rejected"}
        /\ addMenuItemScreen'.pending < addMenuItemScreen.pending
            => /\ ~addMenuItemScreen'.loading
               /\ addMenuItemScreen'.pending = 0
        /\ (addMenuItemScreen'.pending < addMenuItemScreen.pending
              /\ addMenuItemScreen'.last.handler = "rejected")
            => /\ addMenuItemScreen'.form = addMenuItemScreen.form
               /\ SubmitEnabled(addMenuItemScreen')
               /\ validateForm(addMenuItemScreen'.form) = NoErrors
               /\ ~addMenuItemScreen'.showSuccessModal
        /\ ~reviewModal.loading /\ reviewModal'.loading
            => /\ reviewModal'.last.requests = 1
               /\ reviewModal'.pendingSubmit + reviewModal'.pendingDelete = 1
        /\ reviewModal.loading /\ ~reviewModal'.loading
            => reviewModal'.last.event \in {"resolved", "rejected"}
        /\ reviewModal'.pendingSubmit < reviewModal.pendingSubmit
            => /\ ~reviewModal'.loading
               /\ reviewModal'.pendingSubmit = 0
        /\ (reviewModal'.pendingSubmit < reviewModal.pendingSubmit
              /\ reviewModal'.last.event = "rejected")
            => /\ reviewModal'.rating = reviewModal.rating
               /\ reviewModal'.comment = reviewModal.comment
               /\ reviewModal'.visible = reviewModal.visible
               /\ ~ReviewSubmitDisabled(reviewModal')]_vars

\* C21 witness: on each form a submission failed; the form is not loading,
\* still holds what was typed and can be submitted again.
C21_Witness ==
  /\ addMenuItemScreen.last.handler = "rejected"
  /\ ~addMenuItemScreen.loading
  /\ addMenuItemScreen.form = validForm
  /\ SubmitEnabled(addMenuItemScreen)
  /\ reviewModal.last = Event("rejected", "handleSubmit", 0, FALSE, TRUE)
  /\ ~reviewModal.loading
  /\ reviewModal.comment = Word(MinCommentLength)
  /\ reviewModal.rating = MaxRating
  /\ ~ReviewSubmitDisabled(reviewModal)

\* C22: right after handleSubmit ran on the add-menu-item form, when
\* validateForm reported at least one field error no request was issued, the
\* form is not loading and nothing is in flight, and the errors are on
\* display; a request was issued exactly when the error set is empty.
C22_ValidationBeforeRequest ==
  Validated =>
    /\ addMenuItemScreen.errors = validateForm(addMenuItemScreen.form)
    /\ addMenuItemScreen.errors # NoErrors
         => /\ addMenuItemScreen.last.requests = 0
            /\ ~addMenuItemScreen.loading
            /\ addMenuItemScreen.pending = 0
    /\ addMenuItemScreen.last.requests = 1 <=> addMenuItemScreen.errors = NoErrors
    /\ addMenuItemScreen.last.requests = 1
         => /\ addMenuItemScreen.loading
            /\ addMenuItemScreen.pending = 1
            /\ addMenuItemScreen.body = menuItemData(addMenuItemScreen.form)

\* C22 witness: the form was submitted without a name and with an alcohol
\* percentage out of range; both errors are shown and nothing was sent.
C22_Witness ==
  /\ Validated
  /\ addMenuItemScreen.errors.name = "Name is required"
  /\ addMenuItemScreen.errors.alcoholPercentage
       = "Alcohol percentage must be between 0 and 100"
  /\ addMenuItemScreen.last.requests = 0
  /\ ~addMenuItemScreen.loading
  /\ addMenuItemScreen.pending = 0

\* C23: a run of the reducer changes nothing but the session it returns:
\* the token store and the module-level current-user reference are as they
\* were before it; and the session it returns depends on the session and
\* the event alone, not on the token store, its environment or the
\* module-level reference.
C23_ReducerPure ==
  /\ [][/\ localStorage' = localStorage
        /\ globalCurrentUser' = globalCurrentUser]_vars
  /\ [](\A action \in AuthActions, g \in Users \cup {Null},
           store \in Tokens \cup {Null, StaleToken}, mode \in StorageModes :
           authReducer(state, g, store, mode, action).state
             = authReducer(state, globalCurrentUser, localStorage, storageMode,
                           action).state)

\* C24: once a logout has completed, the response of a call that was in
\* flight before it cannot authenticate the session again or save a token:
\* the startup check, begun at mount, ends with the session unauthenticated
\* when the last settling event was the logout; and a login or register
\* that returns in the step right after the logout completed, begun before
\* it, leaves the session unauthenticated and the token store empty.
C24_LogoutIsFinal ==
  [][/\ (/\ lastSettling = "AUTH_LOGOUT"
         /\ lastStep'.op = "checkExistingAuth"
         /\ lastStep'.phase = "return")
        => ~state'.isAuthenticated
     /\ (/\ Returned("logout")
         /\ lastStep'.op \in {"login", "register"}
         /\ lastStep'.phase = "return")
        => /\ ~state'.isAuthenticated
           /\ getToken(localStorage', storageMode') = Null]_vars

\* C25: when the validation of the startup check ends, by an answer or by an
\* exception, on a session that a login or register has authenticated in the
\* meantime, the session stays authenticated with the same user and getToken
\* returns what it returned before.
C25_StartupKeepsLogin ==
  [][(/\ state.isAuthenticated
      /\ lastStep'.op = "checkExistingAuth"
      /\ lastStep'.phase = "return"
      /\ lastStep'.hasToken = "true"
      /\ Rejects(lastStep'.out))
       => /\ state'.isAuthenticated
          /\ state'.user = state.user
          /\ getToken(localStorage', storageMode') = getToken(localStorage, storageMode)]_vars

\* C26: when login or register completes, the response it returns has
\* success = true exactly when the call dispatched AUTH_SUCCESS, and
\* success = false when it dispatched AUTH_FAILURE.
C26_SuccessFlagAgrees ==
  (lastStep.op \in {"login", "register"} /\ lastStep.phase = "return") =>
    /\ lastStep.returns = "response"
    /\ lastStep.ret.success <=> lastStep.action.type = "AUTH_SUCCESS"
    /\ lastStep.action.type = "AUTH_FAILURE" => ~lastStep.ret.success

\* C27: after every sequence of reducer events the module-level current-user
\* reference, which getCurrentUserGlobal returns, equals the user of the
\* session: both null, or the same user.
C27_GlobalUserIsSessionUser ==
  /\ globalCurrentUser = state.user
  /\ globalCurrentUser \in Users \cup {Null}

\* C27 witness: UPDATE_USER has just replaced the user of a session by
\* another one, and the module-level reference names the new user.
C27_Witness ==
  /\ Returned("authReducer")
  /\ lastStep.action = UpdateUser("u2")
  /\ lastSettling = "AUTH_SUCCESS"
  /\ state.user = "u2"
  /\ globalCurrentUser = "u2"

\* C28: in every reachable session state a session that carries a user is
\* authenticated: user not null implies isAuthenticated = true.
C28_UserImpliesAuthenticated ==
  state.user # Null => state.isAuthenticated

\* C29: no step of updateProfile, changePassword or refreshUser changes
\* isAuthenticated or isLoading; a step that ends one of them after its
\* remote call failed or threw, and every step of changePassword, leaves the
\* session, the module-level user reference and the token store as they were.
C29_ProfileOpsFrame ==
  [][lastStep'.op \in {"updateProfile", "changePassword", "refreshUser"} =>
       /\ state'.isAuthenticated = state.isAuthenticated
       /\ state'.isLoading = state.isLoading
       /\ localStorage' = localStorage
       /\ (\/ lastStep'.phase = "call"
           \/ lastStep'.op = "changePassword"
           \/ Fails(lastStep'.out))
            => /\ state' = state
               /\ globalCurrentUser' = globalCurrentUser]_vars

\* C29 witness: updateProfile ended after its remote call threw, on a session
\* that is authenticated, with the token stored before the step still there.
C29_Witness ==
  /\ Returned("updateProfile")
  /\ lastStep.out.threw
  /\ lastStep.action = NoAction
  /\ state = Authenticated("u1")
  /\ getToken(localStorage, storageMode) = "t1"
  /\ lastStep.tokenBefore = "t1"

\* The value is a number (not NaN) and is at least 0.
NonNegative(x) == ~isNaN(x) /\ ~Less(x, 0)

\* C30: right after handleSubmit sent a request, the payload it passed to
\* BusinessService.addMenuItem has a numeric price >= 0, a numeric
\* volume >= 0, and an alcoholPercentage in (0, 100] when type is alcohol
\* and 0 otherwise.
C30_PayloadNumeric ==
  (Validated /\ addMenuItemScreen.last.requests = 1) =>
    /\ NonNegative(addMenuItemScreen.body.price)
    /\ NonNegative(addMenuItemScreen.body.volume)
    /\ IF addMenuItemScreen.body.type = "alcohol"
         THEN /\ Greater(addMenuItemScreen.body.alcoholPercentage, 0)
              /\ LessEq(addMenuItemScreen.body.alcoholPercentage, 100)
         ELSE addMenuItemScreen.body.alcoholPercentage = Number(0, 1)

====
